---- MODULE Spec2Model ----
(***************************************************************************)
(* Model of the collaborative text patching core of the CodeCollaborate    *)
(* server (package patching): Patch values, Patch.Transform, and the       *)
(* Diff-level primitives it calls.  Strings are sequences of one-character *)
(* strings; a Diff is a record (Insertion, Offset, Text); a Patch is a     *)
(* record (BaseVersion, Changes).                                          *)
(***************************************************************************)
EXTENDS Integers, Sequences, FiniteSets, TLC

VARIABLES base,     \* the common base string both sides authored against
          patch,    \* the receiver of Patch.Transform
          others,   \* the argument of Patch.Transform: patches applied first
          pc,       \* which step of the exchange has been taken
          cut,      \* split point of others used by TransformSplit
          out,      \* patch.Transform(others)
          outRev,   \* others[1].Transform([patch]), the opposite direction
          docA,     \* peer that applied others first, then out
          docB,     \* peer that applied patch first, then outRev
          strs,     \* patch strings: printed by String, or received
          parsed,   \* result of NewPatchFromString / TransformFromString
          heap,       \* allocated Patch and Diffs objects, by address
          heapBefore, \* the heap when the last patch method was called
          result,     \* address returned by the last patch method
          disk,       \* the bucket store's directory: contents by file name
          diskBefore, \* the directory before the last store operation
          ret,        \* the last store operation, its arguments and its result
          db,         \* the datastore behind a request: rows and stored versions
          dbBefore,   \* the datastore when the request arrived
          calls,      \* datastore functions called by the request, in order
          req,        \* the request being processed
          closures    \* the closures and the error returned by process

patchVars == <<base, patch, others, cut, out, outRev, docA, docB, strs, parsed>>
heapVars == <<heap, heapBefore, result>>
storeVars == <<disk, diskBefore, ret>>
handlerVars == <<db, dbBefore, calls, req, closures>>
vars == <<patchVars, pc,
                 heapVars, storeVars, handlerVars>>

\* the parts of the state that an operation of another package leaves alone
HeapIdle == heap = <<>> /\ heapBefore = <<>> /\ result = 0
StoreIdle == disk = <<>> /\ diskBefore = <<>> /\ ret = <<>>
HandlerIdle == db = <<>> /\ dbBefore = <<>> /\ calls = <<>> /\ req = <<>> /\ closures = <<>>

----------------------------------------------------------------------------
(* Bounds *)

MaxBase == 6        \* longest base string for one-diff-against-one-diff inputs
MaxMultiBase == 1   \* longest base string for multi-diff inputs
MaxDiffs == 3       \* total number of diffs in patch and others together
MaxOthers == 2      \* longest list of other patches
MaxVersion == 2     \* base versions are drawn from -1..MaxVersion
MaxWireDiffs == 2   \* most diffs of a printed patch
MaxSegments == 2    \* most diff segments of a received patch string

Letters == <<"a", "b", "c", "d", "e", "f", "g", "h", "i">>
InsTexts == {<<"X">>, <<"Y">>, <<"X", "Y">>}

Base(n) == SubSeq(Letters, 1, n)

----------------------------------------------------------------------------
(* Sequence helpers *)

Min(x, y) == IF x <= y THEN x ELSE y
Max(x, y) == IF x >= y THEN x ELSE y

RECURSIVE Flatten(_)
Flatten(ss) == IF ss = <<>> THEN <<>> ELSE Head(ss) \o Flatten(Tail(ss))

----------------------------------------------------------------------------
(* Diff and Patch values *)

NewDiff(insertion, offset, text) ==
    [Insertion |-> insertion, Offset |-> offset, Text |-> text]

NewPatch(baseVersion, changes) ==
    [BaseVersion |-> baseVersion, Changes |-> changes]

----------------------------------------------------------------------------
(* Diff primitives.  Diff's own file is not among the sources; these follow *)
(* the specification's sections 4.1, 4.1.1 and 4.1.2.                       *)

EndOf(d) == d.Offset + Len(d.Text)

\* a.transform(b) against an insertion b (Case I)
transformAgainstInsertion(a, b) ==
    LET L == Len(b.Text)
        B == b.Offset
    IN  IF B <= a.Offset
          THEN <<NewDiff(a.Insertion, a.Offset + L, a.Text)>>
        ELSE IF a.Insertion \/ B >= EndOf(a)
          THEN <<a>>
        ELSE <<NewDiff(FALSE, a.Offset, SubSeq(a.Text, 1, B - a.Offset)),
               NewDiff(FALSE, B + L, SubSeq(a.Text, B - a.Offset + 1, Len(a.Text)))>>

\* a.transform(b) against a deletion b (Case II)
transformAgainstDeletion(a, b) ==
    LET L == Len(b.Text)
        B == b.Offset
        keptBefore == SubSeq(a.Text, 1, Max(0, Min(B, EndOf(a)) - a.Offset))
        keptAfter == SubSeq(a.Text, Max(0, Min(EndOf(a), EndOf(b)) - a.Offset) + 1, Len(a.Text))
        remainder == keptBefore \o keptAfter
    IN  IF EndOf(b) <= a.Offset
          THEN <<NewDiff(a.Insertion, a.Offset - L, a.Text)>>
        ELSE IF a.Insertion
          THEN IF B >= a.Offset THEN <<a>> ELSE <<NewDiff(TRUE, B, a.Text)>>
        ELSE IF B >= EndOf(a)
          THEN <<a>>
        ELSE IF remainder = <<>>
          THEN <<>>
        ELSE <<NewDiff(FALSE, Min(a.Offset, B), remainder)>>

\* Pairwise transformation a.transform(b): a's effect in post-b coordinates
transformPair(a, b) ==
    IF b.Insertion THEN transformAgainstInsertion(a, b)
                   ELSE transformAgainstDeletion(a, b)

\* One step of the fold: every element of the intermediate list against b
transformEach(intermediate, b) ==
    Flatten([i \in 1..Len(intermediate) |-> transformPair(intermediate[i], b)])

RECURSIVE transformFold(_, _)
transformFold(intermediate, bs) ==
    IF bs = <<>> THEN intermediate
    ELSE transformFold(transformEach(intermediate, Head(bs)), Tail(bs))

\* diff.transform(others): fold one diff through a list of diffs, in order
transform(diff, bs) == transformFold(<<diff>>, bs)

\* Result of applying to a string: the new string, or the error kind
Ok(s) == [err |-> "", str |-> s]
Failed(kind) == [err |-> kind, str |-> <<>>]

\* Apply one diff to base string s
ApplyDiff(s, d) ==
    IF d.Insertion
      THEN IF d.Offset > Len(s) THEN Failed("OffsetOutOfRange")
           ELSE Ok(SubSeq(s, 1, d.Offset) \o d.Text \o SubSeq(s, d.Offset + 1, Len(s)))
    ELSE IF EndOf(d) > Len(s) THEN Failed("OffsetOutOfRange")
    ELSE IF SubSeq(s, d.Offset + 1, EndOf(d)) # d.Text THEN Failed("InvalidBase")
    ELSE Ok(SubSeq(s, 1, d.Offset) \o SubSeq(s, EndOf(d) + 1, Len(s)))

RECURSIVE ApplyDiffs(_, _)
ApplyDiffs(r, ds) ==
    IF r.err # "" \/ ds = <<>> THEN r
    ELSE ApplyDiffs(ApplyDiff(r.str, Head(ds)), Tail(ds))

\* apply(base, patch): the diffs left to right, each on the previous result
Apply(r, p) == ApplyDiffs(r, p.Changes)

----------------------------------------------------------------------------
(* Patch.Transform *)

RECURSIVE TransformLoop(_, _, _)
TransformLoop(intermediateDiffs, maxVersionSeen, rest) ==
    IF rest = <<>> THEN NewPatch(maxVersionSeen + 1, intermediateDiffs)
    ELSE LET otherPatch == Head(rest)
             newIntermediateDiffs ==
                 Flatten([i \in 1..Len(intermediateDiffs) |->
                             transform(intermediateDiffs[i], otherPatch.Changes)])
         IN  TransformLoop(newIntermediateDiffs,
                           IF maxVersionSeen < otherPatch.BaseVersion
                             THEN otherPatch.BaseVersion
                             ELSE maxVersionSeen,
                           Tail(rest))

\* Variants of Transform with one slip each, used to show that the properties
\* below depend on the loop: the intermediate list is never carried over,
TransformKeepsInput(p, ps) ==
    NewPatch(TransformLoop(p.Changes, p.BaseVersion - 1, ps).BaseVersion, p.Changes)

\* the other patches are visited last to first,
RECURSIVE Reversed(_)
Reversed(s) == IF s = <<>> THEN <<>> ELSE Append(Reversed(Tail(s)), Head(s))

TransformVisitsBackwards(p, ps) ==
    TransformLoop(p.Changes, p.BaseVersion - 1, Reversed(ps))

\* the smaller version is kept instead of the larger,
RECURSIVE MinVersionLoop(_, _)
MinVersionLoop(seen, rest) ==
    IF rest = <<>> THEN seen
    ELSE MinVersionLoop(IF seen > Head(rest).BaseVersion THEN Head(rest).BaseVersion
                                                          ELSE seen,
                        Tail(rest))

TransformKeepsSmallerVersion(p, ps) ==
    NewPatch(MinVersionLoop(p.BaseVersion - 1, ps) + 1,
             TransformLoop(p.Changes, p.BaseVersion - 1, ps).Changes)

\* the version seen starts at the patch's own version,
TransformStartsAtOwnVersion(p, ps) == TransformLoop(p.Changes, p.BaseVersion, ps)

\* the new intermediate list starts as the old one instead of empty.
RECURSIVE CarryingLoop(_, _, _)
CarryingLoop(intermediateDiffs, maxVersionSeen, rest) ==
    IF rest = <<>> THEN NewPatch(maxVersionSeen + 1, intermediateDiffs)
    ELSE CarryingLoop(
             intermediateDiffs
               \o Flatten([i \in 1..Len(intermediateDiffs) |->
                             transform(intermediateDiffs[i], Head(rest).Changes)]),
             Max(maxVersionSeen, Head(rest).BaseVersion),
             Tail(rest))

TransformCarriesOldDiffs(p, ps) == CarryingLoop(p.Changes, p.BaseVersion - 1, ps)

Transform(p, ps) == TransformLoop(p.Changes, p.BaseVersion - 1, ps)

----------------------------------------------------------------------------
(* Patch.Undo *)

\* diff.Undo(): the insertion flag flipped, offset and text unchanged (spec 4.1)
UndoDiff(d) == NewDiff(~d.Insertion, d.Offset, d.Text)

\* the loop of Patch.Undo from index i down to 1, appending to newChanges
RECURSIVE UndoLoop(_, _, _)
UndoLoop(changes, i, newChanges) ==
    IF i < 1 THEN newChanges
    ELSE UndoLoop(changes, i - 1, Append(newChanges, UndoDiff(changes[i])))

\* Variants of Undo with one slip each: the changes are visited first to last,
UndoKeepsOrder(p) ==
    NewPatch(p.BaseVersion, [i \in 1..Len(p.Changes) |-> UndoDiff(p.Changes[i])])

\* the loop stops before the first change.
UndoStopsEarly(p) ==
    NewPatch(p.BaseVersion,
             IF p.Changes = <<>> THEN <<>>
             ELSE UndoLoop(Tail(p.Changes), Len(p.Changes) - 1, <<>>))

Undo(p) == NewPatch(p.BaseVersion, UndoLoop(p.Changes, Len(p.Changes), <<>>))

----------------------------------------------------------------------------
(* Textual form: Patch.String and NewPatchFromString *)

DigitChars == <<"0", "1", "2", "3", "4", "5", "6", "7", "8", "9">>

IsDigit(c) == \E i \in 1..10 : DigitChars[i] = c
DigitValue(c) == (CHOOSE i \in 1..10 : DigitChars[i] = c) - 1

\* decimal digits of a natural number
RECURSIVE FormatNat(_)
FormatNat(n) ==
    IF n < 10 THEN <<DigitChars[n + 1]>>
    ELSE Append(FormatNat(n \div 10), DigitChars[(n % 10) + 1])

\* fmt.Sprintf("%d", n)
FormatInt(n) == IF n < 0 THEN <<"-">> \o FormatNat(0 - n) ELSE FormatNat(n)

RECURSIVE DigitsValue(_, _)
DigitsValue(s, acc) ==
    IF s = <<>> THEN acc ELSE DigitsValue(Tail(s), 10 * acc + DigitValue(Head(s)))

\* an unsigned decimal field: one or more digits and nothing else
ParseUint(s) ==
    IF s # <<>> /\ \A i \in 1..Len(s) : IsDigit(s[i])
      THEN [ok |-> TRUE, val |-> DigitsValue(s, 0)]
      ELSE [ok |-> FALSE, val |-> 0]

\* strconv.ParseInt(s, 10, 64): an optional sign, then one or more digits
ParseInt(s) ==
    IF s # <<>> /\ Head(s) \in {"+", "-"}
      THEN LET u == ParseUint(Tail(s))
           IN  [ok |-> u.ok, val |-> IF Head(s) = "-" THEN 0 - u.val ELSE u.val]
      ELSE ParseUint(s)

\* index of the first occurrence of sep in s, or 0
IndexOf(s, sep) ==
    LET hits == {i \in 1..(Len(s) - Len(sep) + 1) : SubSeq(s, i, i + Len(sep) - 1) = sep}
    IN  IF hits = {} THEN 0 ELSE CHOOSE i \in hits : \A j \in hits : i <= j

\* strings.Split(s, sep) for a non-empty sep
RECURSIVE Split(_, _)
Split(s, sep) ==
    LET i == IndexOf(s, sep)
    IN  IF i = 0 THEN <<s>>
        ELSE <<SubSeq(s, 1, i - 1)>> \o Split(SubSeq(s, i + Len(sep), Len(s)), sep)

\* diff.String(): <offset>:<op><length>:<text> (spec 4.1)
DiffString(d) ==
    FormatNat(d.Offset) \o <<":">> \o <<IF d.Insertion THEN "+" ELSE "-">>
      \o FormatNat(Len(d.Text)) \o <<":">> \o d.Text

NilDiff == NewDiff(FALSE, 0, <<>>)
DiffParsed(d) == [err |-> "", diff |-> d]
DiffRejected == [err |-> "InvalidDiff", diff |-> NilDiff]

\* NewDiffFromString: three colon-separated fields, the third being all that
\* follows the second colon; rejected when a field is missing, the op is
\* neither + nor -, a number is not decimal, or the declared length is not
\* the length of the text (spec 4.1, 7)
NewDiffFromString(s) ==
    LET c1 == IndexOf(s, <<":">>)
        rest == SubSeq(s, c1 + 1, Len(s))
        c2 == IndexOf(rest, <<":">>)
        offset == ParseUint(SubSeq(s, 1, c1 - 1))
        length == ParseUint(SubSeq(rest, 2, c2 - 1))
        text == SubSeq(rest, c2 + 1, Len(rest))
    IN  IF c1 = 0 \/ c2 = 0 THEN DiffRejected
        ELSE IF c2 < 2 \/ rest[1] \notin {"+", "-"} THEN DiffRejected
        ELSE IF ~offset.ok \/ ~length.ok THEN DiffRejected
        ELSE IF length.val # Len(text) \/ text = <<>> THEN DiffRejected
        ELSE DiffParsed(NewDiff(rest[1] = "+", offset.val, text))

\* patch.String()
RECURSIVE JoinDiffs(_)
JoinDiffs(ds) ==
    IF ds = <<>> THEN <<>>
    ELSE <<",", "\n">> \o DiffString(Head(ds)) \o JoinDiffs(Tail(ds))

String(p) ==
    <<"v">> \o FormatInt(p.BaseVersion) \o <<":", "\n">>
      \o (IF Len(p.Changes) > 0
            THEN DiffString(p.Changes[1]) \o JoinDiffs(Tail(p.Changes))
            ELSE <<>>)

\* the result of a parse: the patch, or the error and no patch
NilPatch == [BaseVersion |-> 0, Changes |-> <<>>, nil |-> TRUE]
Parsed(p) == [err |-> "", patch |-> p]
Rejected(e) == [err |-> e, patch |-> NilPatch]

\* the loop of NewPatchFromString over diffStrs
RECURSIVE ParseDiffs(_, _, _)
ParseDiffs(baseVersion, diffStrs, changes) ==
    IF diffStrs = <<>> THEN Parsed(NewPatch(baseVersion, changes))
    ELSE LET newDiff == NewDiffFromString(Head(diffStrs))
         IN  IF newDiff.err # "" THEN Rejected(newDiff.err)
             ELSE ParseDiffs(baseVersion, Tail(diffStrs), Append(changes, newDiff.diff))

\* Variant of NewPatchFromString with one slip: a diff that fails to parse
\* ends the loop and the diffs parsed so far are returned with the error.
RECURSIVE ParseDiffsPartial(_, _, _)
ParseDiffsPartial(baseVersion, diffStrs, changes) ==
    IF diffStrs = <<>> THEN Parsed(NewPatch(baseVersion, changes))
    ELSE LET newDiff == NewDiffFromString(Head(diffStrs))
         IN  IF newDiff.err # ""
               THEN [err |-> newDiff.err, patch |-> NewPatch(baseVersion, changes)]
             ELSE ParseDiffsPartial(baseVersion, Tail(diffStrs),
                                    Append(changes, newDiff.diff))

NewPatchFromStringPartial(str) ==
    LET parts == Split(str, <<":", "\n">>)
        version == ParseInt(Tail(parts[1]))
    IN  IF Len(parts) < 2 THEN Rejected("Invalid patch format")
        ELSE IF Len(parts[1]) <= 1 THEN Rejected("Invalid base version")
        ELSE IF ~version.ok THEN Rejected("invalid syntax")
        ELSE ParseDiffsPartial(version.val, Split(parts[2], <<",", "\n">>), <<>>)

NewPatchFromString(str) ==
    LET parts == Split(str, <<":", "\n">>)
        version == ParseInt(Tail(parts[1]))
    IN  IF Len(parts) < 2 THEN Rejected("Invalid patch format")
        ELSE IF Len(parts[1]) <= 1 THEN Rejected("Invalid base version")
        ELSE IF ~version.ok THEN Rejected("invalid syntax")
        ELSE ParseDiffs(version.val, Split(parts[2], <<",", "\n">>), <<>>)

\* the loop of TransformFromString: parse every other string, stop at an error
RECURSIVE ParseOthers(_, _)
ParseOthers(rest, patches) ==
    IF rest = <<>> THEN [err |-> "", patches |-> patches]
    ELSE LET r == NewPatchFromString(Head(rest))
         IN  IF r.err # "" THEN [err |-> r.err, patches |-> <<>>]
             ELSE ParseOthers(Tail(rest), Append(patches, r.patch))

TransformFromString(p, ss) ==
    LET r == ParseOthers(ss, <<>>)
    IN  IF r.err # "" THEN Rejected(r.err) ELSE Parsed(Transform(p, r.patches))

----------------------------------------------------------------------------
(* Inputs: patches that are applicable to the base they were authored on *)

\* Every diff that is valid on string s
DiffsOn(s) ==
    {NewDiff(TRUE, o, t) : o \in 0..Len(s), t \in InsTexts}
    \cup {NewDiff(FALSE, x[1], SubSeq(s, x[1] + 1, x[2])) :
            x \in {y \in (0..Len(s)) \X (1..Len(s)) : y[1] < y[2]}}

\* Every list of exactly k diffs applicable left to right starting from s
RECURSIVE ChangesOn(_, _)
ChangesOn(s, k) ==
    IF k = 0 THEN {<<>>}
    ELSE UNION {{<<d>> \o rest : rest \in ChangesOn(ApplyDiff(s, d).str, k - 1)} :
                  d \in DiffsOn(s)}

\* Every way to cut the list ds into exactly n consecutive non-empty lists
RECURSIVE CutsOf(_, _)
CutsOf(ds, n) ==
    IF n = 0 THEN (IF ds = <<>> THEN {<<>>} ELSE {})
    ELSE UNION {{<<SubSeq(ds, 1, k)>> \o rest :
                    rest \in CutsOf(SubSeq(ds, k + 1, Len(ds)), n - 1)} :
                  k \in 1..Len(ds)}

Versions == (-1)..MaxVersion

\* One diff against one diff, authored concurrently on the same version
PairInputs ==
    \E n \in 0..MaxBase :
      \E a \in DiffsOn(Base(n)), b \in DiffsOn(Base(n)) :
        /\ base = Base(n)
        /\ patch = NewPatch(1, <<a>>)
        /\ others = <<NewPatch(1, <<b>>)>>

\* patch: version 1 and k more diffs, each valid on the result of the ones before
RECURSIVE AuthorPatch(_, _, _)
AuthorPatch(s, k, cs) ==
    IF k = 0 THEN patch = NewPatch(1, cs)
    ELSE \E d \in DiffsOn(s) : AuthorPatch(ApplyDiff(s, d).str, k - 1, Append(cs, d))

\* others: k more diffs, then cut into m patches; patch i was authored on version i
RECURSIVE AuthorOthers(_, _, _, _)
AuthorOthers(s, k, hs, m) ==
    IF k = 0 THEN \E parts \in CutsOf(hs, m) :
                     others = [i \in 1..m |-> NewPatch(i, parts[i])]
    ELSE \E d \in DiffsOn(s) : AuthorOthers(ApplyDiff(s, d).str, k - 1, Append(hs, d), m)

\* A patch against the ordered history of patches applied since its base
MultiInputs ==
    \E n \in 0..MaxMultiBase, i \in 1..MaxDiffs, m \in 0..MaxOthers :
      \E j \in 0..(MaxDiffs - i) :
        /\ base = Base(n)
        /\ AuthorPatch(Base(n), i, <<>>)
        /\ AuthorOthers(Base(n), j, <<>>, m)

\* Arbitrary base versions on small contents; the other patches are empty
VersionInputs ==
    \E m \in 0..MaxOthers, i \in 0..1 :
      \E v \in Versions, vs \in [1..m -> Versions], cs \in ChangesOn(Base(0), i) :
        /\ base = Base(0)
        /\ patch = NewPatch(v, cs)
        /\ others = [k \in 1..m |-> NewPatch(vs[k], <<>>)]

----------------------------------------------------------------------------
(* The exchange: transform, transform the other way, apply on both peers *)

NoPatch == NewPatch(0, <<>>)
NoDoc == Failed("none")
NoParse == Rejected("none")

Init ==
    /\ (PairInputs \/ MultiInputs \/ VersionInputs)
    /\ pc = "init"
    /\ cut = 0
    /\ out = NoPatch
    /\ outRev = NoPatch
    /\ docA = NoDoc
    /\ docB = NoDoc
    /\ strs = <<>>
    /\ parsed = NoParse
    /\ HeapIdle /\ StoreIdle /\ HandlerIdle

\* patch.Transform(others)
DoTransform ==
    /\ pc = "init"
    /\ out' = Transform(patch, others)
    /\ pc' = "transformed"
    /\ UNCHANGED <<base, patch, others, cut, outRev, docA, docB, strs, parsed,
                 heapVars, storeVars, handlerVars>>

\* patch.Transform(xs).Transform(ys) for a cut of others into xs ++ ys
DoTransformSplit ==
    /\ pc = "init"
    /\ \E k \in 0..Len(others) :
          /\ cut' = k
          /\ out' = Transform(Transform(patch, SubSeq(others, 1, k)),
                              SubSeq(others, k + 1, Len(others)))
    /\ pc' = "split"
    /\ UNCHANGED <<base, patch, others, outRev, docA, docB, strs, parsed,
                 heapVars, storeVars, handlerVars>>

\* the other peer's direction: others[1].Transform([patch])
DoTransformReverse ==
    /\ pc = "transformed"
    /\ Len(others) = 1
    /\ outRev' = Transform(others[1], <<patch>>)
    /\ pc' = "exchanged"
    /\ UNCHANGED <<base, patch, others, cut, out, docA, docB, strs, parsed,
                 heapVars, storeVars, handlerVars>>

\* each peer applies its own patch, then the other's transformed patch
DoApplyPeers ==
    /\ pc = "exchanged"
    /\ docA' = Apply(Apply(Ok(base), others[1]), out)
    /\ docB' = Apply(Apply(Ok(base), patch), outRev)
    /\ pc' = "applied"
    /\ UNCHANGED <<base, patch, others, cut, out, outRev, strs, parsed,
                 heapVars, storeVars, handlerVars>>

\* patch applied to the base, then patch.Undo() applied to the result
DoUndo ==
    /\ pc = "init"
    /\ out' = Undo(patch)
    /\ docA' = Apply(Ok(base), patch)
    /\ docB' = Apply(Apply(Ok(base), patch), Undo(patch))
    /\ pc' = "undone"
    /\ UNCHANGED <<base, patch, others, cut, outRev, strs, parsed,
                 heapVars, storeVars, handlerVars>>

Next ==
    \/ DoTransform
    \/ DoTransformSplit
    \/ DoTransformReverse
    \/ DoApplyPeers
    \/ DoUndo

Spec == Init /\ [][Next]_vars

----------------------------------------------------------------------------
(* Printing and parsing patch strings *)

WireVersions == Versions \cup {10, -12}
WireOffsets == {0, 10}
WireTexts ==
    {<<"X">>, <<"a", "b">>, <<"a", "\n", "b">>, <<"\n">>,
     <<"a", ",", "\n", "b">>, <<"a", ":", "b">>}

WireDiffs ==
    {NewDiff(i, o, x) : i \in BOOLEAN, o \in WireOffsets, x \in WireTexts}

\* a well-formed patch to print: k more diffs after cs
RECURSIVE PrintInputs(_, _)
PrintInputs(k, cs) ==
    \/ \E v \in WireVersions : patch = NewPatch(v, cs) /\ strs = <<>>
    \/ k > 0 /\ \E d \in WireDiffs : PrintInputs(k - 1, Append(cs, d))

\* received strings: a header, a separator and diff segments joined by ",\n"
Headers ==
    {<<"v", "7">>, <<"v", "-", "1">>, <<"v", "1", "0">>, <<"x", "7">>, <<"1", "7">>,
     <<"7">>, <<"v">>, <<>>, <<"v", "x">>, <<"v", "1", "x">>}
Separators == {<<":", "\n">>, <<":">>, <<>>}
Segments ==
    {<<"0", ":", "+", "1", ":", "X">>, <<"3", ":", "-", "2", ":", "a", "b">>,
     <<"0", ":", "*", "1", ":", "X">>, <<"0", ":", "+", "2", ":", "X">>,
     <<"0", ":", "+", "1">>, <<"x", ":", "+", "1", ":", "X">>,
     <<"0", ":", "+", "y", ":", "X">>, <<>>}

RECURSIVE JoinSegments(_)
JoinSegments(segs) ==
    IF segs = <<>> THEN <<>>
    ELSE IF Len(segs) = 1 THEN segs[1]
    ELSE segs[1] \o <<",", "\n">> \o JoinSegments(Tail(segs))

RawStrings(n) ==
    {h \o s \o JoinSegments(segs) :
        h \in Headers, s \in Separators, segs \in [1..n -> Segments]}

\* one received string of up to MaxSegments diff segments
RawInputs ==
    \E n \in 0..MaxSegments : \E s \in RawStrings(n) :
        /\ strs = <<s>>
        /\ patch = NewPatch(1, <<NewDiff(TRUE, 0, <<"Y">>)>>)

\* a list of received strings for TransformFromString
ListInputs ==
    \E s1 \in RawStrings(1), s2 \in RawStrings(0) \cup {String(NewPatch(2, <<d>>)) : d \in WireDiffs} :
        /\ strs = <<s1, s2>>
        /\ patch = NewPatch(1, <<NewDiff(TRUE, 0, <<"Y">>)>>)

WireInit ==
    /\ (PrintInputs(MaxWireDiffs, <<>>) \/ RawInputs \/ ListInputs)
    /\ pc = "wire"
    /\ base = <<>>
    /\ others = <<>>
    /\ cut = 0
    /\ out = NoPatch
    /\ outRev = NoPatch
    /\ docA = NoDoc
    /\ docB = NoDoc
    /\ parsed = NoParse
    /\ HeapIdle /\ StoreIdle /\ HandlerIdle

\* patch.String()
DoString ==
    /\ pc = "wire"
    /\ strs = <<>>
    /\ strs' = <<String(patch)>>
    /\ pc' = "printed"
    /\ UNCHANGED <<base, patch, others, cut, out, outRev, docA, docB, parsed,
                 heapVars, storeVars, handlerVars>>

\* NewPatchFromString on the string just printed
DoParsePrinted ==
    /\ pc = "printed"
    /\ parsed' = NewPatchFromString(strs[1])
    /\ pc' = "reparsed"
    /\ UNCHANGED <<base, patch, others, cut, out, outRev, docA, docB, strs,
                 heapVars, storeVars, handlerVars>>

\* NewPatchFromString on a received string
DoParse ==
    /\ pc = "wire"
    /\ Len(strs) = 1
    /\ parsed' = NewPatchFromString(strs[1])
    /\ pc' = "parsed"
    /\ UNCHANGED <<base, patch, others, cut, out, outRev, docA, docB, strs,
                 heapVars, storeVars, handlerVars>>

\* patch.TransformFromString(strs)
DoTransformFromString ==
    /\ pc = "wire"
    /\ strs # <<>>
    /\ parsed' = TransformFromString(patch, strs)
    /\ pc' = "transformedFromString"
    /\ UNCHANGED <<base, patch, others, cut, out, outRev, docA, docB, strs,
                 heapVars, storeVars, handlerVars>>

WireNext ==
    \/ DoString
    \/ DoParsePrinted
    \/ DoParse
    \/ DoTransformFromString

WireSpec == WireInit /\ [][WireNext]_vars

----------------------------------------------------------------------------
(* Shorthands for the properties *)

Transformed == pc \in {"transformed", "exchanged", "applied"}

\* one diff a transformed against one diff b
OneOnOne ==
    /\ Len(others) = 1
    /\ Len(patch.Changes) = 1
    /\ Len(others[1].Changes) = 1

DiffA == patch.Changes[1]
DiffB == others[1].Changes[1]

\* positions of the base (counted from 1) that a deletion removes
RangeOf(d) == (d.Offset + 1)..EndOf(d)

\* the characters of s at the positions from i on that are not in gone
RECURSIVE KeepFrom(_, _, _)
KeepFrom(s, gone, i) ==
    IF i > Len(s) THEN <<>>
    ELSE (IF i \in gone THEN <<>> ELSE <<s[i]>>) \o KeepFrom(s, gone, i + 1)

Keep(s, gone) == KeepFrom(s, gone, 1)

----------------------------------------------------------------------------
(* Convergence *)

\* C1: TP1 convergence.  For concurrent patches a, b of equal base version,
\* each applicable to the base s, apply(apply(s, a), b.Transform([a])) equals
\* apply(apply(s, b), a.Transform([b])).
C1_TP1Convergence ==
    (pc = "applied" /\ patch.BaseVersion = others[1].BaseVersion) => docA = docB

\* C2: two insertions at the same offset of a common base: the peer that
\* applies a then b.Transform([a]) and the peer that applies b then
\* a.Transform([b]) end with the same string.
C2_TieBreakConverges ==
    (/\ pc = "applied"
     /\ OneOnOne
     /\ DiffA.Insertion /\ DiffB.Insertion
     /\ DiffA.Offset = DiffB.Offset)
    => (docA.err = "" /\ docB.err = "" /\ docA.str = docB.str)

\* deletion a strictly contains the offset of insertion b
SplitCase ==
    /\ OneOnOne
    /\ ~DiffA.Insertion /\ DiffB.Insertion
    /\ DiffA.Offset < DiffB.Offset /\ DiffB.Offset < EndOf(DiffA)

\* C3: deletion split by insertion.  a.transform(b) is the two deletions
\* (a.offset, a.text[:B-a.offset]) then (B+L, a.text[B-a.offset:]), and applying
\* them left to right to the post-b string removes exactly a's characters and
\* keeps b's inserted text.
C3_SplitRemovesExactlyA ==
    (pc = "applied" /\ SplitCase) =>
        LET k == DiffB.Offset - DiffA.Offset
        IN  /\ out.Changes =
                 <<NewDiff(FALSE, DiffA.Offset, SubSeq(DiffA.Text, 1, k)),
                   NewDiff(FALSE, DiffB.Offset + Len(DiffB.Text),
                           SubSeq(DiffA.Text, k + 1, Len(DiffA.Text)))>>
            /\ docA = Ok(SubSeq(base, 1, DiffA.Offset) \o DiffB.Text
                           \o SubSeq(base, EndOf(DiffA) + 1, Len(base)))

\* C4: deletion-text accuracy.  For diffs a, b each valid on s, the diffs of
\* a.transform(b), applied in patch order starting from apply(s, b), each find
\* their text at their offset: the application does not fail.
C4_TransformedDiffsApply ==
    (pc = "applied" /\ OneOnOne) => docA.err = ""

----------------------------------------------------------------------------
(* Pairwise transformation, seen through Patch.Transform *)

BothDeletions == OneOnOne /\ ~DiffA.Insertion /\ ~DiffB.Insertion

Overlapping == RangeOf(DiffA) \cap RangeOf(DiffB) # {}

\* what is left of deletion a once deletion b has been applied
SurvivingDeletion ==
    LET text == KeepFrom(SubSeq(base, 1, EndOf(DiffA)), RangeOf(DiffB), DiffA.Offset + 1)
        offset == DiffA.Offset
                    - Cardinality({q \in RangeOf(DiffB) : q <= DiffA.Offset})
    IN  IF text = <<>> THEN <<>> ELSE <<NewDiff(FALSE, offset, text)>>

\* C5: overlapping deletions.  Transforming deletion a against an intersecting
\* deletion b yields a deletion of exactly the characters of a that b did not
\* remove, at post-b coordinates; no diff when a lies inside b; one deletion at
\* a.offset of the two surviving fragments when a strictly contains b; and both
\* peers reach the base without the characters of either deletion.
C5_OverlappingDeletions ==
    /\ (Transformed /\ BothDeletions /\ Overlapping) =>
          /\ out.Changes = SurvivingDeletion
          /\ RangeOf(DiffA) \subseteq RangeOf(DiffB) => out.Changes = <<>>
          /\ (DiffA.Offset < DiffB.Offset /\ EndOf(DiffB) < EndOf(DiffA)) =>
                out.Changes =
                  <<NewDiff(FALSE, DiffA.Offset,
                            SubSeq(base, DiffA.Offset + 1, DiffB.Offset)
                              \o SubSeq(base, EndOf(DiffB) + 1, EndOf(DiffA)))>>
    /\ (pc = "applied" /\ BothDeletions /\ Overlapping) =>
          /\ docA = Ok(Keep(base, RangeOf(DiffA) \cup RangeOf(DiffB)))
          /\ docB = docA

\* S4: "bcd"@1 against "cde"@2 gives delete "b"@1, the reverse delete "e"@1,
\* and both peers reach "af"
C5_Witness ==
    /\ pc = "applied"
    /\ base = Base(6)
    /\ patch.Changes = <<NewDiff(FALSE, 1, <<"b", "c", "d">>)>>
    /\ others[1].Changes = <<NewDiff(FALSE, 2, <<"c", "d", "e">>)>>
    /\ out.Changes = <<NewDiff(FALSE, 1, <<"b">>)>>
    /\ outRev.Changes = <<NewDiff(FALSE, 1, <<"e">>)>>
    /\ docA = Ok(<<"a", "f">>)
    /\ docB = Ok(<<"a", "f">>)

\* C6: against an insertion b of length L at offset B: if B <= a.offset the
\* result is exactly a shifted right by L (two insertions at equal offsets
\* included); if B > a.offset for an insertion a, or B >= a's end for a
\* deletion a, the result is exactly [a].
C6_AgainstInsertion ==
    (Transformed /\ OneOnOne /\ DiffB.Insertion) =>
        /\ DiffB.Offset <= DiffA.Offset =>
              out.Changes = <<NewDiff(DiffA.Insertion,
                                      DiffA.Offset + Len(DiffB.Text), DiffA.Text)>>
        /\ (IF DiffA.Insertion THEN DiffB.Offset > DiffA.Offset
                               ELSE DiffB.Offset >= EndOf(DiffA)) =>
              out.Changes = <<DiffA>>

\* S1 on a five-character base: "Y"@5 against "X"@0 moves to 6, "X"@0 stays
C6_Witness ==
    /\ pc = "exchanged"
    /\ base = Base(5)
    /\ patch.Changes = <<NewDiff(TRUE, 5, <<"Y">>)>>
    /\ others[1].Changes = <<NewDiff(TRUE, 0, <<"X">>)>>
    /\ out.Changes = <<NewDiff(TRUE, 6, <<"Y">>)>>
    /\ outRev.Changes = <<NewDiff(TRUE, 0, <<"X">>)>>

\* C7: against a deletion b of length L at offset B: if B+L <= a.offset the
\* result is a shifted left by L; if b starts at or after a's end (for an
\* insertion a: at or after a.offset) the result is [a]; if a is an insertion
\* with B <= a.offset < B+L the result is a with its offset clamped to B.
C7_AgainstDeletion ==
    (Transformed /\ OneOnOne /\ ~DiffB.Insertion) =>
        /\ EndOf(DiffB) <= DiffA.Offset =>
              out.Changes = <<NewDiff(DiffA.Insertion,
                                      DiffA.Offset - Len(DiffB.Text), DiffA.Text)>>
        /\ (IF DiffA.Insertion THEN DiffB.Offset >= DiffA.Offset
                               ELSE DiffB.Offset >= EndOf(DiffA)) =>
              out.Changes = <<DiffA>>
        /\ (DiffA.Insertion /\ DiffB.Offset <= DiffA.Offset
                            /\ DiffA.Offset < EndOf(DiffB)) =>
              out.Changes = <<NewDiff(TRUE, DiffB.Offset, DiffA.Text)>>

\* an insertion inside the deleted range attaches to the surviving boundary
C7_Witness ==
    /\ pc = "transformed"
    /\ base = Base(6)
    /\ patch.Changes = <<NewDiff(TRUE, 3, <<"X">>)>>
    /\ others[1].Changes = <<NewDiff(FALSE, 1, <<"b", "c", "d", "e">>)>>
    /\ out.Changes = <<NewDiff(TRUE, 1, <<"X">>)>>

----------------------------------------------------------------------------
(* Patch-level transformation *)

ChangesOf(ps) == Flatten([i \in 1..Len(ps) |-> ps[i].Changes])

\* C8: the changes of Patch.Transform(others) are self.changes folded, in
\* order, through the concatenation of every other patch's changes: the same
\* changes as Transform against one patch holding o1.changes ++ ... ++ on.changes.
C8_FoldThroughConcatenation ==
    pc = "transformed" =>
        /\ out.Changes = transformFold(patch.Changes, ChangesOf(others))
        /\ out.Changes = Transform(patch, <<NewPatch(1, ChangesOf(others))>>).Changes

\* two other patches whose order matters to the result
C8_Witness ==
    /\ pc = "transformed"
    /\ Len(others) = 2
    /\ others[1].Changes # <<>> /\ others[2].Changes # <<>>
    /\ out.Changes # patch.Changes
    /\ out.Changes # transformFold(patch.Changes, ChangesOf(Reversed(others)))

MaxOf(S) == CHOOSE x \in S : \A y \in S : y <= x

C10_Associative ==
    pc = "split" => out = Transform(patch, others)

\* a proper cut of two other patches, both of which change the patch
C10_Witness ==
    /\ pc = "split"
    /\ cut = 1
    /\ Len(others) = 2
    /\ Transform(patch, SubSeq(others, 1, 1)).Changes # patch.Changes
    /\ out.Changes # Transform(patch, SubSeq(others, 1, 1)).Changes

\* C11: transforming a patch against the empty list of patches returns a patch
\* with the same changes, in the same order, and the same base version.
C11_EmptyListIdentity ==
    (pc = "transformed" /\ others = <<>>) => out = patch

\* a patch of several diffs and no other patch
C11_Witness ==
    /\ pc = "transformed"
    /\ others = <<>>
    /\ Len(patch.Changes) >= 2
    /\ out = patch

----------------------------------------------------------------------------
(* Undo *)

\* C17: Patch.Undo returns a patch with the same base version whose changes
\* are the original changes in reverse order, each with its insertion flag
\* flipped and its offset and text unchanged.
C17_UndoReversesAndFlips ==
    pc = "undone" =>
        /\ out.BaseVersion = patch.BaseVersion
        /\ Len(out.Changes) = Len(patch.Changes)
        /\ \A i \in 1..Len(patch.Changes) :
              LET d == patch.Changes[Len(patch.Changes) + 1 - i]
              IN  /\ out.Changes[i].Insertion = ~d.Insertion
                  /\ out.Changes[i].Offset = d.Offset
                  /\ out.Changes[i].Text = d.Text

\* a patch of an insertion followed by a different deletion
C17_Witness ==
    /\ pc = "undone"
    /\ Len(patch.Changes) = 2
    /\ patch.Changes[1].Insertion /\ ~patch.Changes[2].Insertion
    /\ patch.Changes[1].Offset # patch.Changes[2].Offset
    /\ out.Changes[1] = NewDiff(TRUE, patch.Changes[2].Offset, patch.Changes[2].Text)

\* C18: undo round trip.  For every base string and patch p applicable to it,
\* applying p and then p.Undo() succeeds and restores the base string.
C18_UndoRoundTrip ==
    pc = "undone" => (docA.err = "" /\ docB = Ok(base))

\* a patch of several diffs that changes the base and is undone
C18_Witness ==
    /\ pc = "undone"
    /\ Len(patch.Changes) = 3
    /\ docA.err = "" /\ docA.str # base
    /\ docB = Ok(base)

----------------------------------------------------------------------------
(* Textual form *)

\* C12: print/parse round trip.  For every well-formed patch p,
\* NewPatchFromString(p.String()) succeeds and returns a patch equal to p.
C12_PrintParseRoundTrip ==
    pc = "reparsed" => parsed = Parsed(patch)

\* C13: a patch with no changes prints as "v<n>:\n" with nothing after the
\* newline, and parsing "v<n>:\n" succeeds and yields base version n and an
\* empty change list.
C13_EmptyPatch ==
    (pc \in {"printed", "reparsed"} /\ patch.Changes = <<>>) =>
        /\ strs[1] = <<"v">> \o FormatInt(patch.BaseVersion) \o <<":", "\n">>
        /\ pc = "reparsed" => parsed = Parsed(NewPatch(patch.BaseVersion, <<>>))

HasNewline(p) ==
    \E i \in 1..Len(p.Changes) :
        \E j \in 1..Len(p.Changes[i].Text) : p.Changes[i].Text[j] = "\n"

\* C14: the declared length is authoritative: a patch whose diff text holds
\* ",\n", ":\n" or any newline is parsed into the same diffs that were printed.
C14_LengthIsAuthoritative ==
    (pc = "reparsed" /\ HasNewline(patch)) =>
        (parsed.err = "" /\ parsed.patch.Changes = patch.Changes)

\* the header of a received string: what precedes the first ":\n"
HeaderOf(s) ==
    LET i == IndexOf(s, <<":", "\n">>)
    IN  IF i = 0 THEN s ELSE SubSeq(s, 1, i - 1)

IsDecimal(s) ==
    LET digits == IF s # <<>> /\ Head(s) \in {"+", "-"} THEN Tail(s) ELSE s
    IN  digits # <<>> /\ \A i \in 1..Len(digits) : IsDigit(digits[i])

BadHeader(s) ==
    \/ IndexOf(s, <<":", "\n">>) = 0
    \/ HeaderOf(s) = <<>>
    \/ Head(HeaderOf(s)) # "v"
    \/ ~IsDecimal(Tail(HeaderOf(s)))

\* C15: NewPatchFromString returns an error and no patch for every input that
\* lacks the leading 'v', lacks the ":\n" separator, has an empty version
\* field, or has a non-numeric version.
C15_HeaderValidation ==
    (pc = "parsed" /\ BadHeader(strs[1])) =>
        (parsed.err # "" /\ parsed.patch = NilPatch)

\* the diff segments of a received string whose header is accepted
SegmentsOf(s) == Split(Split(s, <<":", "\n">>)[2], <<",", "\n">>)

BadSegment(s) ==
    /\ Len(Split(s, <<":", "\n">>)) >= 2
    /\ \E i \in 1..Len(SegmentsOf(s)) : NewDiffFromString(SegmentsOf(s)[i]).err # ""

\* C16: if any diff segment of a patch string fails its own parse,
\* NewPatchFromString returns an error and no patch, never a partially
\* populated patch; TransformFromString returns an error and no patch if any
\* of the other patch strings fails to parse.
C16_NoPartialPatch ==
    /\ (pc = "parsed" /\ BadSegment(strs[1])) =>
          (parsed.err # "" /\ parsed.patch = NilPatch)
    /\ (pc = "transformedFromString"
          /\ \E i \in 1..Len(strs) : NewPatchFromString(strs[i]).err # "") =>
          (parsed.err # "" /\ parsed.patch = NilPatch)

\* a good diff segment followed by one whose declared length is wrong
C16_Witness ==
    /\ pc = "parsed"
    /\ strs[1] = <<"v", "7", ":", "\n", "3", ":", "-", "2", ":", "a", "b", ",", "\n",
                   "0", ":", "+", "2", ":", "X">>
    /\ parsed.err = "InvalidDiff"
    /\ parsed.patch = NilPatch

----------------------------------------------------------------------------
(* Line endings: Patch.ConvertToCRLF and Patch.ConvertToLF *)

MaxLineBase == 3
MaxLineMultiBase == 2
MaxLineDiffs == 2

\* strings.Replace(text, "\n", "\r\n", -1)
RECURSIVE ReplaceLF(_)
ReplaceLF(text) ==
    IF text = <<>> THEN <<>>
    ELSE IF Head(text) = "\n" THEN <<"\r", "\n">> \o ReplaceLF(Tail(text))
    ELSE <<Head(text)>> \o ReplaceLF(Tail(text))

\* strings.Replace(text, "\r\n", "\n", -1)
RECURSIVE CollapseCRLF(_)
CollapseCRLF(text) ==
    IF text = <<>> THEN <<>>
    ELSE IF Len(text) >= 2 /\ text[1] = "\r" /\ text[2] = "\n"
      THEN <<"\n">> \o CollapseCRLF(Tail(Tail(text)))
    ELSE <<Head(text)>> \o CollapseCRLF(Tail(text))

\* diff.ConvertToCRLF(base): one step right for each "\n" of base at a
\* position before the offset, every "\n" of the text becomes "\r\n" (spec 4.4)
RECURSIVE ShiftRight(_, _, _)
ShiftRight(b, i, offset) ==
    IF i > Len(b) \/ i > offset THEN 0
    ELSE (IF b[i] = "\n" THEN 1 ELSE 0) + ShiftRight(b, i + 1, offset)

DiffConvertToCRLF(d, b) ==
    NewDiff(d.Insertion, d.Offset + ShiftRight(b, 1, d.Offset), ReplaceLF(d.Text))

\* diff.ConvertToLF(base): one step left for each "\r\n" pair of base that
\* lies wholly before the offset, every "\r\n" of the text becomes "\n" (spec 4.4)
RECURSIVE ShiftLeft(_, _, _)
ShiftLeft(b, i, offset) ==
    IF i + 1 > Len(b) \/ i + 1 > offset THEN 0
    ELSE (IF b[i] = "\r" /\ b[i + 1] = "\n" THEN 1 ELSE 0)
           + ShiftLeft(b, i + 1, offset)

DiffConvertToLF(d, b) ==
    NewDiff(d.Insertion, d.Offset - ShiftLeft(b, 1, d.Offset), CollapseCRLF(d.Text))

\* the loops of Patch.ConvertToCRLF and Patch.ConvertToLF over patch.Changes
RECURSIVE ConvertToCRLFLoop(_, _, _)
ConvertToCRLFLoop(changes, b, newChanges) ==
    IF changes = <<>> THEN newChanges
    ELSE ConvertToCRLFLoop(Tail(changes), b,
                           Append(newChanges, DiffConvertToCRLF(Head(changes), b)))

RECURSIVE ConvertToLFLoop(_, _, _)
ConvertToLFLoop(changes, b, newChanges) ==
    IF changes = <<>> THEN newChanges
    ELSE ConvertToLFLoop(Tail(changes), b,
                         Append(newChanges, DiffConvertToLF(Head(changes), b)))

\* Variants with one slip each: ConvertToCRLF calls the LF conversion of the
\* diffs,
ConvertToCRLFCallsLF(p, b) ==
    NewPatch(p.BaseVersion, ConvertToLFLoop(p.Changes, b, <<>>))

\* ConvertToCRLF converts each diff against the base as changed by the diffs
\* before it,
RECURSIVE ConvertToCRLFProgressiveLoop(_, _, _)
ConvertToCRLFProgressiveLoop(changes, b, newChanges) ==
    IF changes = <<>> THEN newChanges
    ELSE ConvertToCRLFProgressiveLoop(
             Tail(changes), ApplyDiff(b, Head(changes)).str,
             Append(newChanges, DiffConvertToCRLF(Head(changes), b)))

ConvertToCRLFProgressive(p, b) ==
    NewPatch(p.BaseVersion, ConvertToCRLFProgressiveLoop(p.Changes, b, <<>>))

\* ConvertToLF returns a patch of version 0.
ConvertToLFDropsVersion(p, b) ==
    NewPatch(0, ConvertToLFLoop(p.Changes, b, <<>>))

ConvertToCRLF(p, b) ==
    NewPatch(p.BaseVersion, ConvertToCRLFLoop(p.Changes, b, <<>>))

ConvertToLF(p, b) ==
    NewPatch(p.BaseVersion, ConvertToLFLoop(p.Changes, b, <<>>))

\* Inputs: a base over a letter, "\n" and "\r", or the base of scenario S6 in
\* either convention, and a patch whose diffs are each valid against the base
LineChars == {"a", "\n", "\r"}
S6Base == <<"a", "\n", "b", "\n", "c">>
LineBases ==
    UNION {[1..n -> LineChars] : n \in 0..MaxLineBase} \cup {S6Base, ReplaceLF(S6Base)}
LineTexts == {<<"Z">>, <<"Z", "\n">>, <<"\r", "\n">>}
LineVersions == {0, 2}

LineDiffsOn(b) ==
    {NewDiff(TRUE, o, t) : o \in 0..Len(b), t \in LineTexts}
      \cup UNION {{NewDiff(FALSE, o, SubSeq(b, o + 1, e)) : e \in (o + 1)..Len(b)} :
                    o \in 0..(Len(b) - 1)}

RECURSIVE LinePatch(_, _)
LinePatch(k, cs) ==
    \/ \E v \in LineVersions : patch = NewPatch(v, cs)
    \/ k > 0 /\ \E d \in LineDiffsOn(base) : LinePatch(k - 1, Append(cs, d))

LineInit ==
    /\ base \in LineBases
    /\ LinePatch(IF Len(base) <= MaxLineMultiBase THEN MaxLineDiffs ELSE 1, <<>>)
    /\ pc = "line"
    /\ others = <<>>
    /\ cut = 0
    /\ out = NoPatch
    /\ outRev = NoPatch
    /\ docA = NoDoc
    /\ docB = NoDoc
    /\ strs = <<>>
    /\ parsed = NoParse
    /\ HeapIdle /\ StoreIdle /\ HandlerIdle

\* patch.ConvertToCRLF(base); docA is the base text in the CRLF convention
DoConvertToCRLF ==
    /\ pc = "line"
    /\ out' = ConvertToCRLF(patch, base)
    /\ docA' = Ok(ReplaceLF(base))
    /\ pc' = "crlf"
    /\ UNCHANGED <<base, patch, others, cut, outRev, docB, strs, parsed,
                 heapVars, storeVars, handlerVars>>

\* the converted patch converted back; docB is the base the caller passes,
\* the text in the CRLF convention or the base of the first conversion
DoConvertBackToLF ==
    /\ pc = "crlf"
    /\ \E b \in {docA.str, base} :
          /\ outRev' = ConvertToLF(out, b)
          /\ docB' = Ok(b)
    /\ pc' = "crlfBack"
    /\ UNCHANGED <<base, patch, others, cut, out, docA, strs, parsed,
                 heapVars, storeVars, handlerVars>>

\* patch.ConvertToLF(base); docA is the base text in the LF convention
DoConvertToLF ==
    /\ pc = "line"
    /\ out' = ConvertToLF(patch, base)
    /\ docA' = Ok(CollapseCRLF(base))
    /\ pc' = "lf"
    /\ UNCHANGED <<base, patch, others, cut, outRev, docB, strs, parsed,
                 heapVars, storeVars, handlerVars>>

DoConvertBackToCRLF ==
    /\ pc = "lf"
    /\ \E b \in {docA.str, base} :
          /\ outRev' = ConvertToCRLF(out, b)
          /\ docB' = Ok(b)
    /\ pc' = "lfBack"
    /\ UNCHANGED <<base, patch, others, cut, out, docA, strs, parsed,
                 heapVars, storeVars, handlerVars>>

LineNext ==
    \/ DoConvertToCRLF
    \/ DoConvertBackToLF
    \/ DoConvertToLF
    \/ DoConvertBackToCRLF

LineSpec == LineInit /\ [][LineNext]_vars

\* a text in the CRLF convention: every "\n" directly follows a "\r"
IsCRLFText(s) == \A i \in 1..Len(s) : s[i] = "\n" => (i > 1 /\ s[i - 1] = "\r")

\* the offset lies between the "\r" and the "\n" of a pair of b
SplitsPair(offset, b) ==
    offset >= 1 /\ offset < Len(b) /\ b[offset] = "\r" /\ b[offset + 1] = "\n"

\* a patch with CRLF semantics against b
CRLFSemantics(p, b) ==
    /\ IsCRLFText(b)
    /\ \A i \in 1..Len(p.Changes) :
          /\ IsCRLFText(p.Changes[i].Text)
          /\ ~SplitsPair(p.Changes[i].Offset, b)

\* the round trip was made with the base in the converted convention
RoundTripped(state) == pc = state /\ docB = docA

LFBefore(b, offset) == {p \in 1..Len(b) : p <= offset /\ b[p] = "\n"}
PairsBefore(b, offset) ==
    {p \in 1..(Len(b) - 1) : p + 1 <= offset /\ b[p] = "\r" /\ b[p + 1] = "\n"}
WithCR(text) ==
    Flatten([i \in 1..Len(text) |->
               IF text[i] = "\n" THEN <<"\r", "\n">> ELSE <<text[i]>>])

\* C20: converting to CRLF moves each diff's offset right by the number of
\* "\n" of the base before the offset and replaces every "\n" of its text by
\* "\r\n"; converting to LF moves the offset left by the number of "\r\n"
\* pairs of the base strictly before it.
C20_OffsetsFollowLineEndings ==
    /\ pc = "crlf" =>
          /\ Len(out.Changes) = Len(patch.Changes)
          /\ \A i \in 1..Len(patch.Changes) :
                /\ out.Changes[i].Offset =
                     patch.Changes[i].Offset
                       + Cardinality(LFBefore(base, patch.Changes[i].Offset))
                /\ out.Changes[i].Text = WithCR(patch.Changes[i].Text)
    /\ pc = "lf" =>
          /\ Len(out.Changes) = Len(patch.Changes)
          /\ \A i \in 1..Len(patch.Changes) :
                out.Changes[i].Offset =
                  patch.Changes[i].Offset
                    - Cardinality(PairsBefore(base, patch.Changes[i].Offset))

\* scenario S6: insert "Z"@3 on "a\nb\nc" becomes insert "Z"@4
C20_Witness ==
    /\ pc = "crlf"
    /\ base = S6Base
    /\ patch.Changes = <<NewDiff(TRUE, 3, <<"Z">>)>>
    /\ out.Changes = <<NewDiff(TRUE, 4, <<"Z">>)>>
    /\ docA = Ok(<<"a", "\r", "\n", "b", "\r", "\n", "c">>)

\* C21: Patch.ConvertToCRLF and Patch.ConvertToLF return a patch with the
\* same base version and the same number of diffs, whose i-th diff is the
\* i-th original diff converted against the base string passed in, not
\* against the base as changed by the earlier diffs of the patch.
C21_EachDiffSeesOriginalBase ==
    /\ pc = "crlf" =>
          /\ out.BaseVersion = patch.BaseVersion
          /\ Len(out.Changes) = Len(patch.Changes)
          /\ \A i \in 1..Len(patch.Changes) :
                out.Changes[i] = DiffConvertToCRLF(patch.Changes[i], base)
    /\ pc = "lf" =>
          /\ out.BaseVersion = patch.BaseVersion
          /\ Len(out.Changes) = Len(patch.Changes)
          /\ \A i \in 1..Len(patch.Changes) :
                out.Changes[i] = DiffConvertToLF(patch.Changes[i], base)

\* the first diff puts a "\n" before the offset of the second; the second
\* offset stays 2 as on the original base and does not become 3
C21_Witness ==
    /\ pc = "crlf"
    /\ base = <<"a", "a">>
    /\ patch = NewPatch(2, <<NewDiff(TRUE, 0, <<"Z", "\n">>), NewDiff(TRUE, 2, <<"Z">>)>>)
    /\ out = NewPatch(2, <<NewDiff(TRUE, 0, <<"Z", "\r", "\n">>), NewDiff(TRUE, 2, <<"Z">>)>>)

----------------------------------------------------------------------------
(* Output size *)

\* the other side is one patch of one diff
AgainstOneDiff == Len(others) = 1 /\ Len(others[1].Changes) = 1

\* C23: transforming the changes of patch a against a single diff b yields at
\* most 2 * |a.changes| diffs, and every output diff has non-empty text.
C23_OutputSizeBound ==
    (pc = "transformed" /\ AgainstOneDiff) =>
        /\ Len(out.Changes) <= 2 * Len(patch.Changes)
        /\ \A i \in 1..Len(out.Changes) : out.Changes[i].Text # <<>>

\* the worst case: one deletion split in two by an insertion inside it
C23_Witness ==
    /\ pc = "transformed"
    /\ SplitCase
    /\ Len(out.Changes) = 2 * Len(patch.Changes)
    /\ \A i \in 1..Len(out.Changes) : out.Changes[i].Text # <<>>

----------------------------------------------------------------------------
(* Patches as objects: a *Patch is an address in the heap, its Changes the *)
(* address of the array behind the slice                                   *)

DiffsObject(elems) == [kind |-> "Diffs", elems |-> elems]
PatchObject(baseVersion, changes) ==
    [kind |-> "Patch", BaseVersion |-> baseVersion, Changes |-> changes]

\* a new object is placed at the next free address
Alloc(h, obj) == Append(h, obj)
Returned(h, address) == [heap |-> h, result |-> address]

\* the diffs behind the Changes of the patch at address p
ChangesAt(h, p) == h[h[p].Changes].elems

\* &Patch{BaseVersion: baseVersion, Changes: changes}
NewPatchAt(h, baseVersion, changes) ==
    Returned(Alloc(h, PatchObject(baseVersion, changes)), Len(h) + 1)

\* newChanges := Diffs{} filled by append, then NewPatch(baseVersion, newChanges)
NewPatchOf(h, baseVersion, newChanges) ==
    NewPatchAt(Alloc(h, DiffsObject(newChanges)), baseVersion, Len(h) + 1)

RECURSIVE PatchTransformLoop(_, _, _, _)
PatchTransformLoop(h, intermediateDiffs, maxVersionSeen, rest) ==
    IF rest = <<>> THEN NewPatchAt(h, maxVersionSeen + 1, intermediateDiffs)
    ELSE LET otherPatch == h[Head(rest)]
             diffs == h[intermediateDiffs].elems
             newIntermediateDiffs ==
                 Flatten([i \in 1..Len(diffs) |->
                             transform(diffs[i], h[otherPatch.Changes].elems)])
         IN  PatchTransformLoop(Alloc(h, DiffsObject(newIntermediateDiffs)),
                                Len(h) + 1,
                                Max(maxVersionSeen, otherPatch.BaseVersion),
                                Tail(rest))

\* Variant of Patch.Transform with one slip: the receiver is updated and
\* returned instead of a new patch.
PatchTransformInPlace(h, p, ps) ==
    LET r == PatchTransformLoop(h, h[p].Changes, h[p].BaseVersion - 1, ps)
    IN  Returned([r.heap EXCEPT ![p] = r.heap[r.result]], p)

\* patch.Transform(others) for the patch at address p and the patches at ps
PatchTransform(h, p, ps) ==
    PatchTransformLoop(h, h[p].Changes, h[p].BaseVersion - 1, ps)

\* patch.Undo()
PatchUndo(h, p) ==
    NewPatchOf(h, h[p].BaseVersion, UndoLoop(ChangesAt(h, p), Len(ChangesAt(h, p)), <<>>))

\* patch.ConvertToCRLF(base) and patch.ConvertToLF(base)
PatchConvertToCRLF(h, p, b) ==
    NewPatchOf(h, h[p].BaseVersion, ConvertToCRLFLoop(ChangesAt(h, p), b, <<>>))

PatchConvertToLF(h, p, b) ==
    NewPatchOf(h, h[p].BaseVersion, ConvertToLFLoop(ChangesAt(h, p), b, <<>>))

\* the heap that holds patch at address 2 and others[i] at address 2i + 2,
\* each after the array of its Changes
RECURSIVE HeapOf(_, _)
HeapOf(h, ps) ==
    IF ps = <<>> THEN h
    ELSE HeapOf(h \o <<DiffsObject(Head(ps).Changes),
                       PatchObject(Head(ps).BaseVersion, Len(h) + 1)>>,
                Tail(ps))

Receiver == 2
Arguments == [i \in 1..Len(others) |-> 2 * i + 2]

LineInputs ==
    /\ base \in LineBases
    /\ LinePatch(IF Len(base) <= MaxLineMultiBase THEN MaxLineDiffs ELSE 1, <<>>)
    /\ others = <<>>

HeapInit ==
    /\ (MultiInputs \/ VersionInputs \/ LineInputs)
    /\ pc = "heap"
    /\ cut = 0
    /\ out = NoPatch
    /\ outRev = NoPatch
    /\ docA = NoDoc
    /\ docB = NoDoc
    /\ strs = <<>>
    /\ parsed = NoParse
    /\ heap = HeapOf(<<>>, <<patch>> \o others)
    /\ heapBefore = <<>>
    /\ result = 0
    /\ StoreIdle /\ HandlerIdle

\* the call returns: the heap it leaves and the address it returns
Return(r, method) ==
    /\ heapBefore' = heap
    /\ heap' = r.heap
    /\ result' = r.result
    /\ pc' = method
    /\ UNCHANGED <<patchVars, storeVars, handlerVars>>

DoPatchTransform ==
    /\ pc = "heap"
    /\ Return(PatchTransform(heap, Receiver, Arguments), "Transform")

DoPatchUndo ==
    /\ pc = "heap"
    /\ Return(PatchUndo(heap, Receiver), "Undo")

DoPatchConvertToCRLF ==
    /\ pc = "heap"
    /\ Return(PatchConvertToCRLF(heap, Receiver, base), "ConvertToCRLF")

DoPatchConvertToLF ==
    /\ pc = "heap"
    /\ Return(PatchConvertToLF(heap, Receiver, base), "ConvertToLF")

HeapNext ==
    \/ DoPatchTransform
    \/ DoPatchUndo
    \/ DoPatchConvertToCRLF
    \/ DoPatchConvertToLF

HeapSpec == HeapInit /\ [][HeapNext]_vars

PatchMethods == {"Transform", "Undo", "ConvertToCRLF", "ConvertToLF"}

\* the patch value held at an address
PatchAt(h, p) == NewPatch(h[p].BaseVersion, ChangesAt(h, p))

\* C22: patches are never mutated: Transform, Undo, ConvertToCRLF and
\* ConvertToLF leave the receiver and every argument patch, base version and
\* changes, as they were and return a new patch.
C22_PatchesNeverMutated ==
    pc \in PatchMethods =>
        /\ \A a \in 1..Len(heapBefore) : heap[a] = heapBefore[a]
        /\ PatchAt(heap, Receiver) = patch
        /\ \A i \in 1..Len(others) : PatchAt(heap, Arguments[i]) = others[i]
        /\ result > Len(heapBefore)
        /\ heap[result].kind = "Patch"

\* a transformation that changes the diffs leaves both patches as they were
C22_Witness ==
    /\ pc = "Transform"
    /\ Len(others) = 1
    /\ PatchAt(heap, result) = Transform(patch, others)
    /\ PatchAt(heap, result) # patch
    /\ PatchAt(heap, Receiver) = patch
    /\ PatchAt(heap, Arguments[1]) = others[1]
    /\ result = Len(heapBefore) + 2

----------------------------------------------------------------------------
(* Bucket store: FilesystemBucketStore, as its tests pin it down.  The     *)
(* directory maps a file name to the bytes stored under it.                *)

MaxFileID == 2
FileIDs == 1..MaxFileID

\* the file of fileID is named fileID, its swap file -1 * fileID
filePath(fileID) == fileID
swapFilePath(fileID) == (-1) * fileID
FilePaths == {filePath(i) : i \in FileIDs} \cup {swapFilePath(i) : i \in FileIDs}

NoFile == "no such file"
fileContents == "testFileContents"
fileContents2 == "newModifiedData"
FileData == {fileContents, fileContents2}

ErrFileAlreadyExists == "ErrFileAlreadyExists"
ErrFileDoesNotExist == "ErrFileDoesNotExist"

\* what a store operation leaves and returns
Done(d, err, bytes) == [disk |-> d, err |-> err, bytes |-> bytes]
Wrote(d, path, bytes) == Done([d EXCEPT ![path] = bytes], "", "")
Read(d, path) ==
    IF d[path] = NoFile THEN Done(d, ErrFileDoesNotExist, "") ELSE Done(d, "", d[path])
Removed(d, path) ==
    IF d[path] = NoFile THEN Done(d, ErrFileDoesNotExist, "")
    ELSE Done([d EXCEPT ![path] = NoFile], "", "")

\* Variants with one slip each: AddFile overwrites an existing file,
AddFileOverwrites(d, fileID, bytes) == Wrote(d, filePath(fileID), bytes)

AddFile(d, fileID, bytes) ==
    IF d[filePath(fileID)] # NoFile THEN Done(d, ErrFileAlreadyExists, "")
    ELSE Wrote(d, filePath(fileID), bytes)

SetFile(d, fileID, bytes) == Wrote(d, filePath(fileID), bytes)

GetFile(d, fileID) == Read(d, filePath(fileID))

\* DeleteFile leaves the swap file behind,
DeleteFileKeepsSwap(d, fileID) == Removed(d, filePath(fileID))

DeleteFile(d, fileID) ==
    IF d[filePath(fileID)] = NoFile THEN Done(d, ErrFileDoesNotExist, "")
    ELSE Done([d EXCEPT ![filePath(fileID)] = NoFile, ![swapFilePath(fileID)] = NoFile],
              "", "")

\* MakeSwapFile keeps a swap file that is already there,
MakeSwapFileKeepsExisting(d, fileID) ==
    IF d[filePath(fileID)] = NoFile THEN Done(d, ErrFileDoesNotExist, "")
    ELSE IF d[swapFilePath(fileID)] # NoFile THEN Done(d, "", "")
    ELSE Wrote(d, swapFilePath(fileID), d[filePath(fileID)])

MakeSwapFile(d, fileID) ==
    IF d[filePath(fileID)] = NoFile THEN Done(d, ErrFileDoesNotExist, "")
    ELSE Wrote(d, swapFilePath(fileID), d[filePath(fileID)])

\* SetSwapFile wants the main file to exist,
SetSwapFileNeedsMain(d, fileID, bytes) ==
    IF d[filePath(fileID)] = NoFile THEN Done(d, ErrFileDoesNotExist, "")
    ELSE Wrote(d, swapFilePath(fileID), bytes)

SetSwapFile(d, fileID, bytes) == Wrote(d, swapFilePath(fileID), bytes)

GetSwapFile(d, fileID) == Read(d, swapFilePath(fileID))

DeleteSwapFile(d, fileID) == Removed(d, swapFilePath(fileID))

\* RestoreSwapFile moves the swap file over the main file.
RestoreSwapFileMoves(d, fileID) ==
    IF d[swapFilePath(fileID)] = NoFile THEN Done(d, ErrFileDoesNotExist, "")
    ELSE Done([d EXCEPT ![filePath(fileID)] = d[swapFilePath(fileID)],
                        ![swapFilePath(fileID)] = NoFile], "", "")

RestoreSwapFile(d, fileID) ==
    IF d[swapFilePath(fileID)] = NoFile THEN Done(d, ErrFileDoesNotExist, "")
    ELSE Wrote(d, filePath(fileID), d[swapFilePath(fileID)])

\* Connect on an empty root directory
StoreInit ==
    /\ disk = [path \in FilePaths |-> NoFile]
    /\ diskBefore = disk
    /\ ret = [op |-> "Connect", fileID |-> 0, arg |-> "", err |-> "", bytes |-> ""]
    /\ pc = "store"
    /\ base = <<>>
    /\ patch = NoPatch
    /\ others = <<>>
    /\ cut = 0
    /\ out = NoPatch
    /\ outRev = NoPatch
    /\ docA = NoDoc
    /\ docB = NoDoc
    /\ strs = <<>>
    /\ parsed = NoParse
    /\ HeapIdle /\ HandlerIdle

\* one call: the directory it leaves, what it returned and what it was given
Called(op, fileID, arg, r) ==
    /\ pc = "store"
    /\ diskBefore' = disk
    /\ disk' = r.disk
    /\ ret' = [op |-> op, fileID |-> fileID, arg |-> arg, err |-> r.err, bytes |-> r.bytes]
    /\ UNCHANGED <<patchVars, pc, heapVars, handlerVars>>

DoAddFile ==
    \E id \in FileIDs, bytes \in FileData : Called("AddFile", id, bytes, AddFile(disk, id, bytes))
DoSetFile ==
    \E id \in FileIDs, bytes \in FileData : Called("SetFile", id, bytes, SetFile(disk, id, bytes))
DoGetFile ==
    \E id \in FileIDs : Called("GetFile", id, "", GetFile(disk, id))
DoDeleteFile ==
    \E id \in FileIDs : Called("DeleteFile", id, "", DeleteFile(disk, id))
DoMakeSwapFile ==
    \E id \in FileIDs : Called("MakeSwapFile", id, "", MakeSwapFile(disk, id))
DoSetSwapFile ==
    \E id \in FileIDs, bytes \in FileData :
        Called("SetSwapFile", id, bytes, SetSwapFile(disk, id, bytes))
DoGetSwapFile ==
    \E id \in FileIDs : Called("GetSwapFile", id, "", GetSwapFile(disk, id))
DoDeleteSwapFile ==
    \E id \in FileIDs : Called("DeleteSwapFile", id, "", DeleteSwapFile(disk, id))
DoRestoreSwapFile ==
    \E id \in FileIDs : Called("RestoreSwapFile", id, "", RestoreSwapFile(disk, id))

\* what the tests do to the directory themselves: os.Remove(filePath) and
\* ioutil.WriteFile(swapFilePath, []byte{}, 0744)
DoOsRemove ==
    \E id \in FileIDs :
        /\ disk[filePath(id)] # NoFile
        /\ Called("os.Remove", id, "", Removed(disk, filePath(id)))
DoOsWriteSwap ==
    \E id \in FileIDs : Called("ioutil.WriteFile", id, "", Wrote(disk, swapFilePath(id), ""))

StoreNext ==
    \/ DoAddFile
    \/ DoSetFile
    \/ DoGetFile
    \/ DoDeleteFile
    \/ DoMakeSwapFile
    \/ DoSetSwapFile
    \/ DoGetSwapFile
    \/ DoDeleteSwapFile
    \/ DoRestoreSwapFile
    \/ DoOsRemove
    \/ DoOsWriteSwap

StoreSpec == StoreInit /\ [][StoreNext]_vars

\* the last call was op; the main file and the swap file of its fileID in d
Was(op) == pc = "store" /\ ret.op = op
Main(d) == d[ret.fileID]
Swap(d) == d[0 - ret.fileID]
MainFilesKept == \A i \in FileIDs : disk[i] = diskBefore[i]

\* C24: after any sequence of operations AddFile(id, data) succeeds exactly
\* when no file is stored for id, after which GetFile(id) returns data; when
\* a file already exists for id it returns ErrFileAlreadyExists.
C24_AddFile ==
    Was("AddFile") =>
        /\ ret.err = "" <=> Main(diskBefore) = NoFile
        /\ ret.err = "" =>
              (GetFile(disk, ret.fileID).err = "" /\ GetFile(disk, ret.fileID).bytes = ret.arg)
        /\ Main(diskBefore) # NoFile => ret.err = ErrFileAlreadyExists

\* a duplicate AddFile on a file whose swap file exists as well
C24_Witness ==
    /\ Was("AddFile")
    /\ Main(diskBefore) = fileContents2
    /\ Swap(diskBefore) = fileContents
    /\ ret.arg = fileContents
    /\ ret.err = ErrFileAlreadyExists

\* C25: DeleteFile on an existing file removes both the file and its swap
\* file, so that GetFile, GetSwapFile and a second DeleteFile for that id all
\* return ErrFileDoesNotExist; on an id with no file it returns
\* ErrFileDoesNotExist.
C25_DeleteFile ==
    Was("DeleteFile") =>
        /\ Main(diskBefore) # NoFile =>
              /\ ret.err = ""
              /\ GetFile(disk, ret.fileID).err = ErrFileDoesNotExist
              /\ GetSwapFile(disk, ret.fileID).err = ErrFileDoesNotExist
              /\ DeleteFile(disk, ret.fileID).err = ErrFileDoesNotExist
        /\ Main(diskBefore) = NoFile => ret.err = ErrFileDoesNotExist

C25_Witness ==
    /\ Was("DeleteFile")
    /\ Main(diskBefore) = fileContents
    /\ Swap(diskBefore) = fileContents
    /\ ret.err = ""
    /\ Main(disk) = NoFile
    /\ Swap(disk) = NoFile

\* C26: MakeSwapFile fails with ErrFileDoesNotExist when the main file does
\* not exist; otherwise it sets the swap file to the main file's current
\* contents, overwriting any existing swap file, and a later SetFile on the
\* main file leaves the swap file's contents unchanged.
C26_MakeSwapFile ==
    /\ Was("MakeSwapFile") =>
          IF Main(diskBefore) = NoFile THEN ret.err = ErrFileDoesNotExist
          ELSE ret.err = "" /\ Swap(disk) = Main(diskBefore)
    /\ Was("SetFile") => Swap(disk) = Swap(diskBefore)

\* the empty swap file written beforehand is overwritten
C26_Witness ==
    /\ Was("MakeSwapFile")
    /\ Main(diskBefore) = fileContents
    /\ Swap(diskBefore) = ""
    /\ ret.err = ""
    /\ Swap(disk) = fileContents

\* C27: RestoreSwapFile fails with ErrFileDoesNotExist whenever no swap file
\* exists, whether or not the main file exists; otherwise the main file's
\* contents become the swap file's contents and the swap file is left
\* unchanged.
C27_RestoreSwapFile ==
    Was("RestoreSwapFile") =>
        IF Swap(diskBefore) = NoFile
          THEN ret.err = ErrFileDoesNotExist
        ELSE /\ ret.err = ""
             /\ Main(disk) = Swap(diskBefore)
             /\ Swap(disk) = Swap(diskBefore)

C27_Witness ==
    /\ Was("RestoreSwapFile")
    /\ Main(diskBefore) = fileContents2
    /\ Swap(diskBefore) = fileContents
    /\ ret.err = ""
    /\ Main(disk) = fileContents
    /\ Swap(disk) = fileContents

\* C28: swap-file operations never touch the main file: SetSwapFile, which
\* succeeds even when no main file exists, and DeleteSwapFile leave the main
\* file's existence and contents unchanged, and DeleteSwapFile on a missing
\* swap file returns ErrFileDoesNotExist.
C28_SwapLeavesMainFile ==
    /\ Was("SetSwapFile") => (ret.err = "" /\ MainFilesKept)
    /\ Was("DeleteSwapFile") =>
          /\ MainFilesKept
          /\ Swap(diskBefore) = NoFile => ret.err = ErrFileDoesNotExist

C28_Witness ==
    /\ Was("SetSwapFile")
    /\ Main(diskBefore) = NoFile
    /\ ret.err = ""
    /\ Main(disk) = NoFile
    /\ Swap(disk) = ret.arg

----------------------------------------------------------------------------
(* Requests: process(db) of User.Delete, File.Delete and File.Change over  *)
(* MySQL rows, Couchbase documents and the project files                  *)

MaxProjects == 2
MaxFiles == 1
MaxFileVersion == 1

Usernames == {"loganga", "other"}
SenderID == "loganga"
ProjectIDs == 1..MaxProjects
RequestFileIDs == 1..MaxFiles
NoRow == <<>>
NoDocument == <<>>
ChangeLists == {<<"v1:\n0:+1:X">>}

\* errors of package dbfs, and any other failure of a datastore call
ErrNoDbChange == "ErrNoDbChange"
ErrVersionOutOfDate == "ErrVersionOutOfDate"
ErrResourceNotFound == "ErrResourceNotFound"
ErrOther == "connection failed"

\* closures returned by process
toSenderClosure(status, data) ==
    [type |-> "toSenderClosure", status |-> status, data |-> data]
toRabbitChannelClosure(resource, method, resourceID, data, projectID) ==
    [type |-> "toRabbitChannelClosure", resource |-> resource, method |-> method,
     resourceID |-> resourceID, data |-> data, projectID |-> projectID]
newEmptyResponse(status) == toSenderClosure(status, <<>>)

\* one datastore call in the log, and what process returns
Call(fn, err) == [fn |-> fn, err |-> err]
Processed(d, log, list, err) == [db |-> d, calls |-> log, closures |-> [list |-> list, err |-> err]]

\* MySQLFileGetInfo: the row of the file, if the query returned one; with no
\* row the loop over rows does not run and the zero ProjectID is returned
\* without an error
MySQLFileGetInfo(d, fileID, fault) ==
    IF fault = "MySQLFileGetInfo" THEN [ProjectID |-> 0, err |-> ErrOther]
    ELSE IF d.rows[fileID] = NoRow THEN [ProjectID |-> 0, err |-> ""]
    ELSE [ProjectID |-> d.rows[fileID][1], err |-> ""]

\* MySQLFileDelete: ErrNoDbChange when no row was affected
MySQLFileDelete(d, fileID, fault) ==
    IF fault = "MySQLFileDelete" THEN [db |-> d, err |-> ErrOther]
    ELSE IF d.rows[fileID] = NoRow THEN [db |-> d, err |-> ErrNoDbChange]
    ELSE [db |-> [d EXCEPT !.rows[fileID] = NoRow], err |-> ""]

\* CBAppendFileChange: the document's version advances by one when the base
\* version is not behind it
CBAppendFileChange(d, fileID, baseVersion, fault) ==
    IF fault = "CBAppendFileChange" THEN [db |-> d, version |-> -1, err |-> ErrOther]
    ELSE IF d.docs[fileID] = NoDocument
      THEN [db |-> d, version |-> -1, err |-> ErrResourceNotFound]
    ELSE IF d.docs[fileID][1] > baseVersion
      THEN [db |-> d, version |-> -1, err |-> ErrVersionOutOfDate]
    ELSE [db |-> [d EXCEPT !.docs[fileID] = <<@[1] + 1>>],
          version |-> d.docs[fileID][1] + 1, err |-> ""]

\* CBDeleteFile and FileDelete: the document and the file on disk
CBDeleteFile(d, fileID, fault) ==
    IF fault = "CBDeleteFile" THEN [db |-> d, err |-> ErrOther]
    ELSE [db |-> [d EXCEPT !.docs[fileID] = NoDocument], err |-> ""]

FileDelete(d, fault) ==
    IF fault = "FileDelete" THEN [db |-> d, err |-> ErrOther] ELSE [db |-> d, err |-> ""]

\* fileDeleteRequest.process
fileDeleteProcess(d, f, fault) ==
    LET info == MySQLFileGetInfo(d, f.FileID, fault)
        c1 == <<Call("MySQLFileGetInfo", info.err)>>
        del == MySQLFileDelete(d, f.FileID, fault)
        c2 == Append(c1, Call("MySQLFileDelete", del.err))
        fs == FileDelete(del.db, fault)
        c3 == Append(c2, Call("FileDelete", fs.err))
        cb == CBDeleteFile(fs.db, f.FileID, fault)
        c4 == Append(c3, Call("CBDeleteFile", cb.err))
    IN  IF info.err # "" THEN Processed(d, c1, <<newEmptyResponse("fail")>>, info.err)
        ELSE IF del.err # "" THEN Processed(del.db, c2, <<newEmptyResponse("fail")>>, del.err)
        ELSE IF fs.err # "" THEN Processed(fs.db, c3, <<newEmptyResponse("fail")>>, fs.err)
        ELSE IF cb.err # "" THEN Processed(cb.db, c4, <<newEmptyResponse("fail")>>, cb.err)
        ELSE Processed(cb.db, c4,
                       <<newEmptyResponse("success"),
                         toRabbitChannelClosure(f.Resource, f.Method, f.FileID, <<>>,
                                                info.ProjectID)>>,
                       "")

\* Variant of fileChangeRequest.process with one slip: a document that is not
\* found is reported as a plain failure.
fileChangeProcessNotFoundAsFail(d, f, fault) ==
    LET fileMeta == MySQLFileGetInfo(d, f.FileID, fault)
        c1 == <<Call("MySQLFileGetInfo", fileMeta.err)>>
        app == CBAppendFileChange(d, f.FileID, f.BaseFileVersion, fault)
        c2 == Append(c1, Call("CBAppendFileChange", app.err))
    IN  IF fileMeta.err # "" THEN Processed(d, c1, <<newEmptyResponse("fail")>>, fileMeta.err)
        ELSE IF app.err = ErrVersionOutOfDate
          THEN Processed(app.db, c2, <<newEmptyResponse("versionOutOfDate")>>, app.err)
        ELSE IF app.err # ""
          THEN Processed(app.db, c2, <<newEmptyResponse("fail")>>, app.err)
        ELSE Processed(app.db, c2,
                 <<toSenderClosure("success", [FileVersion |-> app.version]),
                   toRabbitChannelClosure(f.Resource, f.Method, f.FileID,
                       [BaseFileVersion |-> f.BaseFileVersion,
                        FileVersion |-> app.version,
                        Changes |-> f.Changes],
                       fileMeta.ProjectID)>>,
                 "")

\* fileChangeRequest.process
fileChangeProcess(d, f, fault) ==
    LET fileMeta == MySQLFileGetInfo(d, f.FileID, fault)
        c1 == <<Call("MySQLFileGetInfo", fileMeta.err)>>
        app == CBAppendFileChange(d, f.FileID, f.BaseFileVersion, fault)
        c2 == Append(c1, Call("CBAppendFileChange", app.err))
    IN  IF fileMeta.err # "" THEN Processed(d, c1, <<newEmptyResponse("fail")>>, fileMeta.err)
        ELSE IF app.err = ErrVersionOutOfDate
          THEN Processed(app.db, c2, <<newEmptyResponse("versionOutOfDate")>>, app.err)
        ELSE IF app.err = ErrResourceNotFound
          THEN Processed(app.db, c2, <<newEmptyResponse("notFound")>>, app.err)
        ELSE IF app.err # ""
          THEN Processed(app.db, c2, <<newEmptyResponse("fail")>>, app.err)
        ELSE Processed(app.db, c2,
                 <<toSenderClosure("success", [FileVersion |-> app.version]),
                   toRabbitChannelClosure(f.Resource, f.Method, f.FileID,
                       [BaseFileVersion |-> f.BaseFileVersion,
                        FileVersion |-> app.version,
                        Changes |-> f.Changes],
                       fileMeta.ProjectID)>>,
                 "")

\* the loop of MySQLUserDelete over the rows of user_get_projectids
RECURSIVE ScanProjectIDs(_, _, _)
ScanProjectIDs(rows, username, projectIDs) ==
    IF rows = <<>> THEN projectIDs
    ELSE ScanProjectIDs(Tail(rows), username,
                        IF Head(rows).owner = username
                          THEN Append(projectIDs, Head(rows).id) ELSE projectIDs)

RECURSIVE Without(_, _)
Without(rows, username) ==
    IF rows = <<>> THEN <<>>
    ELSE IF Head(rows).owner = username THEN Without(Tail(rows), username)
    ELSE <<Head(rows)>> \o Without(Tail(rows), username)

\* Variant of MySQLUserDelete with one slip: each project ID is put in front of
\* the ones scanned before it.
RECURSIVE ScanNewestFirst(_, _, _)
ScanNewestFirst(rows, username, projectIDs) ==
    IF rows = <<>> THEN projectIDs
    ELSE ScanNewestFirst(Tail(rows), username,
                         IF Head(rows).owner = username
                           THEN <<Head(rows).id>> \o projectIDs ELSE projectIDs)

MySQLUserDeleteNewestFirst(d, username, fault) ==
    LET q == <<Call("user_get_projectids", "")>>
    IN  IF fault = "user_get_projectids"
          THEN [db |-> d, calls |-> <<Call("user_get_projectids", ErrOther)>>,
                projectIDs |-> <<>>, err |-> "panic"]
        ELSE IF fault = "user_delete"
          THEN [db |-> d, calls |-> Append(q, Call("user_delete", ErrOther)),
                projectIDs |-> <<>>, err |-> ErrOther]
        ELSE IF username \notin d.users
          THEN [db |-> d, calls |-> Append(q, Call("user_delete", "")),
                projectIDs |-> <<>>, err |-> ErrNoDbChange]
        ELSE [db |-> [d EXCEPT !.users = @ \ {username},
                               !.projects = Without(@, username)],
              calls |-> Append(q, Call("user_delete", "")),
              projectIDs |-> ScanNewestFirst(d.projects, username, <<>>), err |-> ""]

\* MySQLUserDelete: the project IDs of the user are read, then the user is
\* deleted; the error of the first query is not looked at, and a failed query
\* leaves no rows to call Next on
MySQLUserDelete(d, username, fault) ==
    LET q == <<Call("user_get_projectids", "")>>
    IN  IF fault = "user_get_projectids"
          THEN [db |-> d, calls |-> <<Call("user_get_projectids", ErrOther)>>,
                projectIDs |-> <<>>, err |-> "panic"]
        ELSE IF fault = "user_delete"
          THEN [db |-> d, calls |-> Append(q, Call("user_delete", ErrOther)),
                projectIDs |-> <<>>, err |-> ErrOther]
        ELSE IF username \notin d.users
          THEN [db |-> d, calls |-> Append(q, Call("user_delete", "")),
                projectIDs |-> <<>>, err |-> ErrNoDbChange]
        ELSE [db |-> [d EXCEPT !.users = @ \ {username},
                               !.projects = Without(@, username)],
              calls |-> Append(q, Call("user_delete", "")),
              projectIDs |-> ScanProjectIDs(d.projects, username, <<>>), err |-> ""]

\* userDeleteRequest.process: the response, then one notification per project
ProjectDeleteNotifications(projectIDs) ==
    [i \in 1..Len(projectIDs) |->
        toRabbitChannelClosure("Project", "Delete", projectIDs[i], <<>>, projectIDs[i])]

userDeleteProcess(d, f, fault) ==
    LET del == MySQLUserDelete(d, f.SenderID, fault)
    IN  IF del.err = "panic" THEN Processed(del.db, del.calls, <<>>, del.err)
        ELSE IF del.err # ""
          THEN Processed(del.db, del.calls, <<newEmptyResponse("fail")>>, del.err)
        ELSE Processed(del.db, del.calls,
                       <<newEmptyResponse("success")>>
                         \o ProjectDeleteNotifications(del.projectIDs),
                       "")

\* File names and paths are lists of segments; filepath.Clean drops a segment
\* together with the ".." that follows it
newFileVersion == 1
ErrMaliciousRequest == "ErrMaliciousRequest"

RECURSIVE CleanLoop(_, _)
CleanLoop(kept, segments) ==
    IF segments = <<>> THEN kept
    ELSE IF Head(segments) = ".." /\ kept # <<>> /\ kept[Len(kept)] # ".."
      THEN CleanLoop(SubSeq(kept, 1, Len(kept) - 1), Tail(segments))
    ELSE CleanLoop(Append(kept, Head(segments)), Tail(segments))

Clean(segments) ==
    LET kept == CleanLoop(<<>>, segments) IN IF kept = <<>> THEN <<".">> ELSE kept

HasSeparator(name) == Len(name) > 1
HasDotDot(name) == \E i \in 1..Len(name) : name[i] = ".."
StartsWithDotDot(path) == path # <<>> /\ path[1] = ".."

\* the files of the project on disk: only failures are told apart
FileWrite(d, fault) ==
    IF fault = "FileWrite" THEN [db |-> d, err |-> ErrOther] ELSE [db |-> d, err |-> ""]

FileMove(d, fault) ==
    IF fault = "FileMove" THEN [db |-> d, err |-> ErrOther] ELSE [db |-> d, err |-> ""]

FileRead(d, fault) ==
    IF fault = "FileRead" THEN [db |-> d, err |-> ErrOther] ELSE [db |-> d, err |-> ""]

\* MySQLFileCreate: the row of the new file, under the next free file ID
FreeFileIDs(d) == {i \in DOMAIN d.rows : d.rows[i] = NoRow /\ d.docs[i] = NoDocument}

MySQLFileCreate(d, filename, relativePath, projectID, fault) ==
    IF HasSeparator(Clean(filename)) \/ HasDotDot(Clean(filename))
      THEN [db |-> d, fileID |-> -1, err |-> ErrMaliciousRequest]
    ELSE IF StartsWithDotDot(Clean(relativePath))
      THEN [db |-> d, fileID |-> -1, err |-> ErrMaliciousRequest]
    ELSE IF fault = "MySQLFileCreate" THEN [db |-> d, fileID |-> -1, err |-> ErrOther]
    ELSE LET fileID == CHOOSE i \in FreeFileIDs(d) : \A j \in FreeFileIDs(d) : i <= j
         IN  [db |-> [d EXCEPT !.rows[fileID] = <<projectID>>], fileID |-> fileID, err |-> ""]

\* MySQLFileMove and MySQLFileRename: ErrNoDbChange when no row was affected
MySQLFileMove(d, fileID, newPath, fault) ==
    IF StartsWithDotDot(Clean(newPath)) THEN [db |-> d, err |-> ErrMaliciousRequest]
    ELSE IF fault = "MySQLFileMove" THEN [db |-> d, err |-> ErrOther]
    ELSE IF d.rows[fileID] = NoRow THEN [db |-> d, err |-> ErrNoDbChange]
    ELSE [db |-> d, err |-> ""]

MySQLFileRename(d, fileID, newName, fault) ==
    IF HasSeparator(newName) THEN [db |-> d, err |-> ErrMaliciousRequest]
    ELSE IF fault = "MySQLFileRename" THEN [db |-> d, err |-> ErrOther]
    ELSE IF d.rows[fileID] = NoRow THEN [db |-> d, err |-> ErrNoDbChange]
    ELSE [db |-> d, err |-> ""]

\* CBInsertNewFile and CBGetFileChanges: the document of the file
CBInsertNewFile(d, fileID, version, fault) ==
    IF fault = "CBInsertNewFile" THEN [db |-> d, err |-> ErrOther]
    ELSE [db |-> [d EXCEPT !.docs[fileID] = <<version>>], err |-> ""]

CBGetFileChanges(d, fileID, fault) ==
    IF fault = "CBGetFileChanges" THEN [db |-> d, version |-> -1, err |-> ErrOther]
    ELSE IF d.docs[fileID] = NoDocument
      THEN [db |-> d, version |-> -1, err |-> ErrResourceNotFound]
    ELSE [db |-> d, version |-> d.docs[fileID][1], err |-> ""]

\* fileCreateRequest.process: a failed step is answered with fail and a nil error
fileCreateProcess(d, f, fault) ==
    LET wr == FileWrite(d, fault)
        c1 == <<Call("FileWrite", wr.err)>>
        cr == MySQLFileCreate(wr.db, f.Name, f.RelativePath, f.ProjectID, fault)
        c2 == Append(c1, Call("MySQLFileCreate", cr.err))
        cb == CBInsertNewFile(cr.db, cr.fileID, newFileVersion, fault)
        c3 == Append(c2, Call("CBInsertNewFile", cb.err))
    IN  IF wr.err # "" THEN Processed(wr.db, c1, <<newEmptyResponse("fail")>>, "")
        ELSE IF cr.err # "" THEN Processed(cr.db, c2, <<newEmptyResponse("fail")>>, "")
        ELSE IF cb.err # "" THEN Processed(cb.db, c3, <<newEmptyResponse("fail")>>, "")
        ELSE Processed(cb.db, c3,
                 <<toSenderClosure("success", [FileID |-> cr.fileID]),
                   toRabbitChannelClosure(f.Resource, f.Method, f.ProjectID,
                       [FileID |-> cr.fileID, Filename |-> f.Name,
                        RelativePath |-> f.RelativePath, Version |-> newFileVersion],
                       f.ProjectID)>>,
                 "")

\* Variant of fileRenameRequest.process with one slip: the file is moved on
\* disk although the rename in MySQL failed.
fileRenameProcessMovesAnyway(d, f, fault) ==
    LET fileMeta == MySQLFileGetInfo(d, f.FileID, fault)
        c1 == <<Call("MySQLFileGetInfo", fileMeta.err)>>
        rn == MySQLFileRename(d, f.FileID, f.NewName, fault)
        c2 == Append(c1, Call("MySQLFileRename", rn.err))
        mv == FileMove(rn.db, fault)
        c3 == Append(c2, Call("FileMove", mv.err))
    IN  IF fileMeta.err # "" THEN Processed(d, c1, <<newEmptyResponse("fail")>>, fileMeta.err)
        ELSE IF rn.err # "" THEN Processed(mv.db, c3, <<newEmptyResponse("fail")>>, rn.err)
        ELSE IF mv.err # "" THEN Processed(mv.db, c3, <<newEmptyResponse("fail")>>, mv.err)
        ELSE Processed(mv.db, c3,
                 <<newEmptyResponse("success"),
                   toRabbitChannelClosure(f.Resource, f.Method, f.FileID,
                       [NewName |-> f.NewName], fileMeta.ProjectID)>>,
                 "")

\* fileRenameRequest.process
fileRenameProcess(d, f, fault) ==
    LET fileMeta == MySQLFileGetInfo(d, f.FileID, fault)
        c1 == <<Call("MySQLFileGetInfo", fileMeta.err)>>
        rn == MySQLFileRename(d, f.FileID, f.NewName, fault)
        c2 == Append(c1, Call("MySQLFileRename", rn.err))
        mv == FileMove(rn.db, fault)
        c3 == Append(c2, Call("FileMove", mv.err))
    IN  IF fileMeta.err # "" THEN Processed(d, c1, <<newEmptyResponse("fail")>>, fileMeta.err)
        ELSE IF rn.err # "" THEN Processed(rn.db, c2, <<newEmptyResponse("fail")>>, rn.err)
        ELSE IF mv.err # "" THEN Processed(mv.db, c3, <<newEmptyResponse("fail")>>, mv.err)
        ELSE Processed(mv.db, c3,
                 <<newEmptyResponse("success"),
                   toRabbitChannelClosure(f.Resource, f.Method, f.FileID,
                       [NewName |-> f.NewName], fileMeta.ProjectID)>>,
                 "")

\* fileMoveRequest.process
fileMoveProcess(d, f, fault) ==
    LET fileMeta == MySQLFileGetInfo(d, f.FileID, fault)
        c1 == <<Call("MySQLFileGetInfo", fileMeta.err)>>
        mm == MySQLFileMove(d, f.FileID, f.NewPath, fault)
        c2 == Append(c1, Call("MySQLFileMove", mm.err))
        mv == FileMove(mm.db, fault)
        c3 == Append(c2, Call("FileMove", mv.err))
    IN  IF fileMeta.err # "" THEN Processed(d, c1, <<newEmptyResponse("fail")>>, fileMeta.err)
        ELSE IF mm.err # "" THEN Processed(mm.db, c2, <<newEmptyResponse("fail")>>, mm.err)
        ELSE IF mv.err # "" THEN Processed(mv.db, c3, <<newEmptyResponse("fail")>>, mv.err)
        ELSE Processed(mv.db, c3,
                 <<newEmptyResponse("success"),
                   toRabbitChannelClosure(f.Resource, f.Method, f.FileID,
                       [NewPath |-> f.NewPath], fileMeta.ProjectID)>>,
                 "")

\* filePullRequest.process: the sender alone is answered
filePullProcess(d, f, fault) ==
    LET fileMeta == MySQLFileGetInfo(d, f.FileID, fault)
        c1 == <<Call("MySQLFileGetInfo", fileMeta.err)>>
        rd == FileRead(d, fault)
        c2 == Append(c1, Call("FileRead", rd.err))
        ch == CBGetFileChanges(rd.db, f.FileID, fault)
        c3 == Append(c2, Call("CBGetFileChanges", ch.err))
    IN  IF fileMeta.err # "" THEN Processed(d, c1, <<newEmptyResponse("fail")>>, fileMeta.err)
        ELSE IF rd.err # "" THEN Processed(rd.db, c2, <<newEmptyResponse("fail")>>, rd.err)
        ELSE IF ch.err # "" THEN Processed(ch.db, c3, <<newEmptyResponse("fail")>>, ch.err)
        ELSE Processed(ch.db, c3,
                 <<toSenderClosure("success", [FileVersion |-> ch.version])>>,
                 "")

\* DataHandler.Handle when getFullRequest returned an error: one response to
\* the sender, and process is not called
ErrAuthenticationFailed == "ErrAuthenticationFailed"

UnresolvedAlwaysUnimplemented(d, err) ==
    Processed(d, <<>>, <<newEmptyResponse("unimplemented")>>, err)

Unresolved(d, err) ==
    IF err = ErrAuthenticationFailed
      THEN Processed(d, <<>>, <<newEmptyResponse("unauthorized")>>, err)
    ELSE Processed(d, <<>>, <<newEmptyResponse("unimplemented")>>, err)

\* DataHandler.Handle when createAbstractRequest returned an error
Unparsed(d, err) == Processed(d, <<>>, <<>>, err)

\* Requests and the datastore they find
FileDeleteFaults == {"none", "MySQLFileGetInfo", "MySQLFileDelete", "FileDelete", "CBDeleteFile"}
FileChangeFaults == {"none", "MySQLFileGetInfo", "CBAppendFileChange"}
UserDeleteFaults == {"none", "user_get_projectids", "user_delete"}

OwnedBy(owners) ==
    [i \in 1..Len(owners) |-> [id |-> i, owner |-> owners[i]]]

\* MySQL and Couchbase agree at the start: a file has a row and a document,
\* or neither
HandlerInit ==
    /\ \E n \in 0..MaxProjects :
         \E owners \in [1..n -> Usernames],
            files \in [RequestFileIDs ->
                         {[row |-> <<p>>, doc |-> <<v>>] : p \in 1..n, v \in 1..MaxFileVersion}
                           \cup {[row |-> NoRow, doc |-> NoDocument]}] :
           db = [users |-> Usernames,
                 projects |-> OwnedBy(owners),
                 rows |-> [i \in RequestFileIDs |-> files[i].row],
                 docs |-> [i \in RequestFileIDs |-> files[i].doc]]
    /\ dbBefore = db
    /\ calls = <<>>
    /\ req = <<>>
    /\ closures = [list |-> <<>>, err |-> ""]
    /\ pc = "request"
    /\ base = <<>>
    /\ patch = NoPatch
    /\ others = <<>>
    /\ cut = 0
    /\ out = NoPatch
    /\ outRev = NoPatch
    /\ docA = NoDoc
    /\ docB = NoDoc
    /\ strs = <<>>
    /\ parsed = NoParse
    /\ HeapIdle /\ StoreIdle

\* where Handle left the last message: not parsed, not resolved, or processed
HandlerPositions == {"request", "unparsed", "unresolved", "processed"}

\* Handle calls process and the request's closures are returned
Process(f, r) ==
    /\ pc \in HandlerPositions
    /\ pc' = "processed"
    /\ req' = f
    /\ dbBefore' = db
    /\ db' = r.db
    /\ calls' = r.calls
    /\ closures' = r.closures
    /\ UNCHANGED <<patchVars, heapVars, storeVars>>

DoFileDelete ==
    \E id \in RequestFileIDs, fault \in FileDeleteFaults :
        LET f == [Resource |-> "File", Method |-> "Delete", SenderID |-> SenderID,
                  FileID |-> id]
        IN  /\ f.FileID \in DOMAIN db.rows
            /\ Process(f, fileDeleteProcess(db, f, fault))

DoFileChange ==
    \E id \in RequestFileIDs, v \in 0..MaxFileVersion, cs \in ChangeLists, fault \in FileChangeFaults :
        LET f == [Resource |-> "File", Method |-> "Change", SenderID |-> SenderID,
                  FileID |-> id, BaseFileVersion |-> v, Changes |-> cs]
        IN  /\ db.docs[id] # NoDocument => db.docs[id][1] < MaxFileVersion + 1
            /\ Process(f, fileChangeProcess(db, f, fault))

DoUserDelete ==
    \E fault \in UserDeleteFaults :
        LET f == [Resource |-> "User", Method |-> "Delete", SenderID |-> SenderID]
        IN  /\ f.SenderID \in Usernames
            /\ Process(f, userDeleteProcess(db, f, fault))

FileNames == {<<"a.go">>, <<"..", "a.go">>}
FilePathsOf == {<<"src">>, <<"src", "..", "..">>}
NewNames == {<<"b.go">>, <<"src", "b.go">>}
FileCreateFaults == {"none", "FileWrite", "MySQLFileCreate", "CBInsertNewFile"}
FileRenameFaults == {"none", "MySQLFileGetInfo", "MySQLFileRename", "FileMove"}
FileMoveFaults == {"none", "MySQLFileGetInfo", "MySQLFileMove", "FileMove"}
FilePullFaults == {"none", "MySQLFileGetInfo", "FileRead", "CBGetFileChanges"}

DoFileCreate ==
    \E name \in FileNames, path \in FilePathsOf, fault \in FileCreateFaults :
      \E i \in 1..Len(db.projects) :
        LET f == [Resource |-> "File", Method |-> "Create", SenderID |-> SenderID,
                  Name |-> name, RelativePath |-> path, ProjectID |-> db.projects[i].id]
        IN  /\ FreeFileIDs(db) # {}
            /\ Process(f, fileCreateProcess(db, f, fault))

DoFileRename ==
    \E id \in RequestFileIDs, name \in NewNames, fault \in FileRenameFaults :
        LET f == [Resource |-> "File", Method |-> "Rename", SenderID |-> SenderID,
                  FileID |-> id, NewName |-> name]
        IN  /\ f.FileID \in DOMAIN db.rows
            /\ Process(f, fileRenameProcess(db, f, fault))

DoFileMove ==
    \E id \in RequestFileIDs, path \in FilePathsOf, fault \in FileMoveFaults :
        LET f == [Resource |-> "File", Method |-> "Move", SenderID |-> SenderID,
                  FileID |-> id, NewPath |-> path]
        IN  /\ f.FileID \in DOMAIN db.rows
            /\ Process(f, fileMoveProcess(db, f, fault))

DoFilePull ==
    \E id \in RequestFileIDs, fault \in FilePullFaults :
        LET f == [Resource |-> "File", Method |-> "Pull", SenderID |-> SenderID,
                  FileID |-> id]
        IN  /\ f.FileID \in DOMAIN db.rows
            /\ Process(f, filePullProcess(db, f, fault))

AbstractRequests ==
    {[Resource |-> "File", Method |-> "Change", SenderID |-> SenderID],
     [Resource |-> "User", Method |-> "Login", SenderID |-> SenderID],
     [Resource |-> "File", Method |-> "Nope", SenderID |-> SenderID]}
ResolveErrors == {ErrAuthenticationFailed, ErrOther}

DoHandleUnparsed ==
    LET r == Unparsed(db, ErrOther)
    IN  /\ pc \in HandlerPositions
        /\ pc' = "unparsed"
        /\ req' = <<>>
        /\ dbBefore' = db
        /\ db' = r.db
        /\ calls' = r.calls
        /\ closures' = r.closures
        /\ UNCHANGED <<patchVars, heapVars, storeVars>>

DoHandleUnresolved ==
    \E f \in AbstractRequests, err \in ResolveErrors :
        LET r == Unresolved(db, err)
        IN  /\ pc \in HandlerPositions
            /\ pc' = "unresolved"
            /\ req' = f
            /\ dbBefore' = db
            /\ db' = r.db
            /\ calls' = r.calls
            /\ closures' = r.closures
            /\ UNCHANGED <<patchVars, heapVars, storeVars>>

HandlerNext ==
    \/ DoFileDelete
    \/ DoFileChange
    \/ DoUserDelete
    \/ DoFileCreate
    \/ DoFileRename
    \/ DoFileMove
    \/ DoFilePull
    \/ DoHandleUnparsed
    \/ DoHandleUnresolved

HandlerSpec == HandlerInit /\ [][HandlerNext]_vars

\* Properties of the requests
Handled(method) == pc = "processed" /\ req # <<>> /\ req.Method = method

NoCallFailed == \A i \in 1..Len(calls) : calls[i].err = ""

\* the projects the sender owned when the request arrived, in creation order
OwnedProjects == SelectSeq(dbBefore.projects, LAMBDA row : row.owner = req.SenderID)

AppendOnlyAfterGetInfo ==
    \A i \in 1..Len(calls) :
        calls[i].fn = "CBAppendFileChange" =>
            \E j \in 1..(i - 1) : calls[j].fn = "MySQLFileGetInfo" /\ calls[j].err = ""

AppendSucceeded ==
    \E i \in 1..Len(calls) : calls[i].fn = "CBAppendFileChange" /\ calls[i].err = ""

VersionAdvanced ==
    /\ dbBefore.docs[req.FileID] # NoDocument
    /\ db.docs[req.FileID] = <<dbBefore.docs[req.FileID][1] + 1>>

SenderAndProjectTold ==
    LET version == db.docs[req.FileID][1]
    IN  /\ \E i \in 1..Len(closures.list) :
             closures.list[i] = toSenderClosure("success", [FileVersion |-> version])
        /\ dbBefore.rows[req.FileID] # NoRow
        /\ \E i \in 1..Len(closures.list) :
             /\ closures.list[i].type = "toRabbitChannelClosure"
             /\ closures.list[i].projectID = dbBefore.rows[req.FileID][1]
             /\ closures.list[i].data = [BaseFileVersion |-> req.BaseFileVersion,
                                         FileVersion |-> version,
                                         Changes |-> req.Changes]

\* C30: File.Change keeps version and notification in sync.  CBAppendFileChange
\* is invoked only after MySQLFileGetInfo has succeeded, and whenever
\* CBAppendFileChange succeeds (the stored version advanced) the closures hold a
\* success response with the new FileVersion for the sender and a notification
\* to the file's project with the same FileVersion, the request's
\* BaseFileVersion and the submitted Changes.
C30_ChangeKeepsVersionAndNotificationInSync ==
    Handled("Change") =>
        /\ AppendOnlyAfterGetInfo
        /\ AppendSucceeded => (VersionAdvanced /\ SenderAndProjectTold)

\* the part of C30 that does not name the file's project
C30_ResponseAndNotificationAgree ==
    (Handled("Change") /\ AppendSucceeded) =>
        /\ AppendOnlyAfterGetInfo
        /\ VersionAdvanced
        /\ Len(closures.list) = 2
        /\ closures.list[1].type = "toSenderClosure"
        /\ closures.list[1].status = "success"
        /\ closures.list[2].type = "toRabbitChannelClosure"
        /\ closures.list[2].data.FileVersion = closures.list[1].data.FileVersion
        /\ closures.list[2].data.BaseFileVersion = req.BaseFileVersion
        /\ closures.list[2].data.Changes = req.Changes

\* the error of the CBAppendFileChange call of the request, "" when it went through
AppendError ==
    LET i == CHOOSE i \in 1..Len(calls) : calls[i].fn = "CBAppendFileChange"
    IN  calls[i].err

AppendFailed ==
    \E i \in 1..Len(calls) : calls[i].fn = "CBAppendFileChange" /\ calls[i].err # ""

NoNotification ==
    \A i \in 1..Len(closures.list) : closures.list[i].type # "toRabbitChannelClosure"

StatusOfAppendError(err) ==
    IF err = ErrVersionOutOfDate THEN "versionOutOfDate"
    ELSE IF err = ErrResourceNotFound THEN "notFound"
    ELSE "fail"

\* C31: File.Change maps a failure of the append to the status of the response:
\* ErrVersionOutOfDate gives versionOutOfDate, ErrResourceNotFound gives
\* notFound, any other error gives fail; in each case the error is returned as
\* well and there is no notification.
C31_AppendFailureStatus ==
    (Handled("Change") /\ AppendFailed) =>
        /\ closures.list = <<newEmptyResponse(StatusOfAppendError(AppendError))>>
        /\ closures.err = AppendError
        /\ closures.err # ""
        /\ NoNotification

C31_Witness ==
    /\ Handled("Change") /\ AppendFailed
    /\ AppendError = ErrResourceNotFound
    /\ closures.list = <<newEmptyResponse("notFound")>>
    /\ closures.err = ErrResourceNotFound

\* Failures of the File requests
FileRequest == pc = "processed" /\ req # <<>> /\ req.Resource = "File"

FileMethods == {"Create", "Rename", "Move", "Delete", "Change", "Pull"}

StepFailed == \E i \in 1..Len(calls) : calls[i].err # ""

SenderResponse == closures.list[1]

\* C32: when a datastore step of a File request (Create, Rename, Move, Delete,
\* Change, Pull) fails, process returns exactly one closure, a response to the
\* sender whose status is not success, there is no notification to the project
\* channel, and no datastore step is invoked after the one that failed.
C32_FailedStepEndsRequest ==
    (FileRequest /\ StepFailed) =>
        /\ req.Method \in FileMethods
        /\ Len(closures.list) = 1
        /\ SenderResponse.type = "toSenderClosure"
        /\ SenderResponse.status # "success"
        /\ NoNotification
        /\ \A i \in 1..Len(calls) : calls[i].err # "" => i = Len(calls)

C32_Witness ==
    /\ FileRequest /\ req.Method = "Rename"
    /\ Len(calls) = 2
    /\ calls[1] = Call("MySQLFileGetInfo", "")
    /\ calls[2] = Call("MySQLFileRename", ErrNoDbChange)
    /\ closures.list = <<newEmptyResponse("fail")>>

\* C33: for every File request, process returns a non-nil error exactly when
\* the response it returns to the sender has a status other than success
\* (File.Create included).
C33_ErrorIffNotSuccess ==
    FileRequest =>
        /\ SenderResponse.type = "toSenderClosure"
        /\ closures.err # "" <=> SenderResponse.status # "success"

\* the same for the File requests other than Create
C33_ErrorIffNotSuccessButCreate ==
    (FileRequest /\ req.Method # "Create") =>
        /\ SenderResponse.type = "toSenderClosure"
        /\ closures.err # "" <=> SenderResponse.status # "success"

\* C34: DataHandler.Handle on a request that cannot be resolved.  When
\* getFullRequest fails with ErrAuthenticationFailed exactly one unauthorized
\* response goes to the sender, for any other failure exactly one
\* unimplemented response; in both cases process is never invoked, so the
\* datastore is not touched.
C34_UnresolvedRequest ==
    pc = "unresolved" =>
        /\ closures.err # ""
        /\ Len(closures.list) = 1
        /\ SenderResponse.type = "toSenderClosure"
        /\ SenderResponse.status =
             IF closures.err = ErrAuthenticationFailed THEN "unauthorized"
             ELSE "unimplemented"
        /\ calls = <<>>
        /\ db = dbBefore

C34_Witness ==
    /\ pc = "unresolved"
    /\ req.Resource = "File" /\ req.Method = "Change"
    /\ closures.err = ErrAuthenticationFailed
    /\ closures.list = <<newEmptyResponse("unauthorized")>>
    /\ db.rows # [i \in RequestFileIDs |-> NoRow]
    /\ calls = <<>>

====
